---------------------------- MODULE Spec2Model ----------------------------
(***************************************************************************)
(* Flood-mapping core of src/agent/gee_service.py: the Otsu threshold      *)
(* solver, the water and change detectors, the temporal composite builder, *)
(* the flood-mask fusion and the area statistic.                           *)
(*                                                                         *)
(* Units.  Pixel values (backscatter, change index) are whole dB.  Derived  *)
(* quantities (bucket means, class means, variances, thresholds) are exact *)
(* rationals <<n, d>> in lowest terms with d > 0.  Dates are "YYYY-MM-DD"  *)
(* strings, modelled as records [y, m, d]; datetime values are day         *)
(* ordinals.                                                               *)
(***************************************************************************)
EXTENDS Integers, Sequences, FiniteSets, TLC

VARIABLES
    \* ---- one run of an Otsu solver (_compute_*_otsu_threshold) ----
    solver,        \* "water" | "change": which of the two solvers runs
    histogram,     \* its argument: [histogram |-> counts, bucketMeans |-> means]
    otsu_i,        \* next element of ee.List.sequence(0, size-1), 1-based
    otsu_state,    \* the iterate accumulator {w0, sum0, max_var, best_threshold}
    otsu_pc,       \* "iterate" | "done"
    otsu_result,   \* the returned ee.Number (a rational), <<0, 1>> until done
    \* ---- one run of a flood pipeline ----
    op,            \* "bounds" | "geojson" | "impact": the public method that runs
    pre_date,      \* argument pre_date, a date string
    peek_date,     \* argument peek_date, a date string
    days_range,    \* argument days_range
    obs_phase,     \* backend: Sentinel-1 acquires on days d with d % RevisitDays = obs_phase
    scene,         \* backend: what the acquisitions and the JRC layer show
    pc,            \* position in the method
    pre_window,    \* _get_sar_composite(pre_date, "before"): dates and collection
    peek_window,   \* _get_sar_composite(peek_date, "after"): dates and collection
    pre_image,     \* its result: an image or None
    peek_image,
    change_threshold,
    water_threshold,
    flood_by_change,
    peek_water,
    permanent_water,
    flood_area,    \* the fused mask (flood_area / flood_mask in the source)
    result,        \* the returned dictionary
    region,        \* the geometry reductions run over: coverage of each pixel
    outage,        \* backend: the requests that fail in this run
    calls,         \* the backend requests the run has built or issued so far
    \* ---- the dialogue graph ----
    thread_state,  \* checkpointer: the FloodAgentState of each thread
    node,          \* the node each thread is at ("idle", "interrupted", "__end__" between runs)
    path,          \* the nodes each thread executed in its current run
    resume,        \* the reply to the interrupt each thread was resumed with
    locals,        \* processing_node: geo_data and search_contents_text of each thread
    pending_search_sources,    \* global _pending_search_sources
    pending_search_contents,   \* global _pending_search_contents
    served         \* the user messages the process has received

otsu_vars == <<solver, histogram, otsu_i, otsu_state, otsu_pc, otsu_result>>

pipe_vars ==
    <<op, pre_date, peek_date, days_range, obs_phase, scene, pc, pre_window,
      peek_window, pre_image, peek_image, change_threshold, water_threshold,
      flood_by_change, peek_water, permanent_water, flood_area, result, region,
      outage, calls>>

dialogue_vars ==
    <<thread_state, node, path, resume, locals, pending_search_sources,
      pending_search_contents, served>>

vars == <<otsu_vars, pipe_vars, dialogue_vars>>

-----------------------------------------------------------------------------
(* Bounds of the model *)

MaxBuckets == 4     \* buckets of a histogram given to the solver directly
MaxCount == 2       \* count of one such bucket
GapWidth == 6       \* empty range between two clusters, dB
GridN == 10         \* the region is GridN x GridN pixels
BlockSize == 3      \* side of the flooded block
DateSpan == 1       \* pre_date and peek_date lie within DateSpan days of the flood
MaxRadius == 2      \* days_range is 1..MaxRadius
RevisitDays == 2    \* days between two Sentinel-1 acquisitions
MaxOutages == 2     \* backend requests that fail in one run
MaxShift == 3       \* dB a patch of the "during" composite differs from the "before" one
MaxPatch == 3       \* columns of the larger patch
MaxThreads == 2     \* conversations the process serves
MaxMessages == 2    \* user messages the process receives
MaxToolCalls == 1   \* calls of the search tool in one run
MaxFactor == 3      \* factors the counts of a histogram are multiplied by
MaxFlooded == 4     \* columns of a flood mask given to the assessment directly
MaxCut == 3         \* column where the boundary of such a region runs
YearSpan == 2       \* target years lie within YearSpan years of the latest vintage

-----------------------------------------------------------------------------
(* ee.Number arithmetic, exact *)

Abs(x) == IF x < 0 THEN -x ELSE x

RECURSIVE GCD(_, _)
GCD(a, b) == IF b = 0 THEN a ELSE GCD(b, a % b)

\* n/d in lowest terms, d > 0
Rat(n, d) ==
    LET g == GCD(Abs(n), Abs(d))
        s == IF d < 0 THEN -1 ELSE 1
    IN  <<(s * n) \div g, (s * d) \div g>>

Num(x) == <<x, 1>>

ee_add(a, b) ==
    LET g == GCD(a[2], b[2])
    IN  Rat(a[1] * (b[2] \div g) + b[1] * (a[2] \div g), (a[2] \div g) * b[2])

ee_subtract(a, b) == ee_add(a, <<-b[1], b[2]>>)

ee_multiply(a, b) ==
    LET g1 == GCD(Abs(a[1]), b[2])
        g2 == GCD(Abs(b[1]), a[2])
    IN  IF a[1] = 0 \/ b[1] = 0 THEN <<0, 1>>
        ELSE <<(a[1] \div g1) * (b[1] \div g2), (a[2] \div g2) * (b[2] \div g1)>>

\* ee.Number.divide returns 0 for a division by 0
ee_divide(a, b) ==
    IF b[1] = 0 THEN <<0, 1>>
    ELSE ee_multiply(a, IF b[1] < 0 THEN <<-b[2], -b[1]>> ELSE <<b[2], b[1]>>)

ee_pow2(a) == <<a[1] * a[1], a[2] * a[2]>>

\* a/b < c/d for b, d > 0, by comparing integer parts and then the
\* reciprocals of the fractional parts (no cross product is formed)
RECURSIVE FracLess(_, _, _, _)
FracLess(a, b, c, d) ==
    LET q1 == a \div b
        q2 == c \div d
        r1 == a % b
        r2 == c % d
    IN  IF q1 # q2 THEN q1 < q2
        ELSE IF r2 = 0 THEN FALSE
        ELSE IF r1 = 0 THEN TRUE
        ELSE FracLess(d, r2, b, r1)

RLess(a, b) == FracLess(a[1], a[2], b[1], b[2])

\* comparisons and logic of ee.Number: 1 for true, 0 for false
ee_gt(a, b) == IF RLess(b, a) THEN <<1, 1>> ELSE <<0, 1>>
ee_lt(a, b) == IF RLess(a, b) THEN <<1, 1>> ELSE <<0, 1>>
ee_gte(a, b) == IF RLess(a, b) THEN <<0, 1>> ELSE <<1, 1>>
ee_And(a, b) == IF a[1] # 0 /\ b[1] # 0 THEN <<1, 1>> ELSE <<0, 1>>
ee_Or(a, b) == IF a[1] # 0 \/ b[1] # 0 THEN <<1, 1>> ELSE <<0, 1>>
ee_Not(a) == IF a[1] = 0 THEN <<1, 1>> ELSE <<0, 1>>

-----------------------------------------------------------------------------
(* The Otsu solver *)

\* default thresholds of the two solvers, in dB
WaterDefault == -20
ChangeDefault == -3

\* Array.reduce(ee.Reducer.sum(), [0]) over elements lo..hi, by halves
RECURSIVE SumSeq(_, _, _)
SumSeq(s, lo, hi) ==
    IF lo > hi THEN <<0, 1>>
    ELSE IF lo = hi THEN s[lo]
    ELSE LET mid == (lo + hi) \div 2
         IN  ee_add(SumSeq(s, lo, mid), SumSeq(s, mid + 1, hi))

counts_of(h) == [k \in DOMAIN h.histogram |-> Num(h.histogram[k])]
means_of(h) == h.bucketMeans
size_of(h) == Len(h.bucketMeans)
total_of(h) == SumSeq(counts_of(h), 1, size_of(h))
sum_all_of(h) ==
    SumSeq([k \in DOMAIN h.histogram |-> ee_multiply(counts_of(h)[k], means_of(h)[k])],
           1, size_of(h))

\* "new_max" of a step: ee.Number.gte in place of gt
new_max_gte(between_var, max_var) == ee_gte(between_var, max_var)

new_max_of(between_var, max_var) == ee_gt(between_var, max_var)

\* a step that does not accumulate the left-side weight
w0_stuck(state, counts, i) == counts[i]

w0_of(state, counts, i) == ee_add(state.w0, counts[i])

\* a split counted as valid only when each side weighs more than one pixel
valid_gt_one(w0, w1) == ee_And(ee_gt(w0, <<1, 1>>), ee_gt(w1, <<1, 1>>))

\* valid = w0.gt(0).And(w1.gt(0))
valid_of(w0, w1) == ee_And(ee_gt(w0, <<0, 1>>), ee_gt(w1, <<0, 1>>))

\* one call of otsu_iteration(i, state); i is 1-based here.  counts, means,
\* total and sum_all are the values the closure captured.
otsu_iteration(i, state, counts, means, total, sum_all) ==
    LET w0 == w0_of(state, counts, i)
        sum0 == ee_add(state.sum0, ee_multiply(counts[i], means[i]))
        w1 == ee_subtract(total, w0)
        valid == valid_of(w0, w1)
        mean0 == ee_divide(sum0, w0)
        mean1 == ee_divide(ee_subtract(sum_all, sum0), w1)
        between_var ==
            ee_multiply(valid,
                ee_multiply(ee_multiply(w0, w1), ee_pow2(ee_subtract(mean0, mean1))))
        new_max == new_max_of(between_var, state.max_var)
        max_var ==
            ee_add(ee_multiply(new_max, between_var),
                   ee_multiply(ee_Not(new_max), state.max_var))
        best_threshold ==
            ee_add(ee_multiply(new_max, means[i]),
                   ee_multiply(ee_Not(new_max), state.best_threshold))
    IN  [w0 |-> w0, sum0 |-> sum0, max_var |-> max_var,
         best_threshold |-> best_threshold]

water_initial_state ==
    [w0 |-> <<0, 1>>, sum0 |-> <<0, 1>>, max_var |-> <<0, 1>>,
     best_threshold |-> Num(WaterDefault)]

\* the initial state the docstring of _compute_change_otsu_threshold
\* describes: a threshold of 0 dB
change_initial_state_zero ==
    [w0 |-> <<0, 1>>, sum0 |-> <<0, 1>>, max_var |-> <<0, 1>>,
     best_threshold |-> <<0, 1>>]

change_initial_state ==
    [w0 |-> <<0, 1>>, sum0 |-> <<0, 1>>, max_var |-> <<0, 1>>,
     best_threshold |-> Num(ChangeDefault)]

initial_state(kind) ==
    IF kind = "water" THEN water_initial_state ELSE change_initial_state

\* ee.List.sequence(0, size-1).iterate(otsu_iteration, initial_state), here
\* for the elements lo..hi from the given state: the left half is folded
\* first and its state handed to the right half
RECURSIVE iterate(_, _, _, _, _, _, _)
iterate(lo, hi, state, counts, means, total, sum_all) ==
    IF lo > hi THEN state
    ELSE IF lo = hi THEN otsu_iteration(lo, state, counts, means, total, sum_all)
    ELSE LET mid == (lo + hi) \div 2
             left == iterate(lo, mid, state, counts, means, total, sum_all)
         IN  IF left.w0[2] > 0
             THEN iterate(mid + 1, hi, left, counts, means, total, sum_all)
             ELSE left

compute_otsu_threshold(h) ==
    LET counts == counts_of(h)
        means == means_of(h)
        total == total_of(h)
        sum_all == sum_all_of(h)
    IN  iterate(1, size_of(h), water_initial_state, counts, means, total, sum_all).best_threshold

\* "new_max" of a step of the change solver: ee.Number.gte in place of gt
change_new_max_gte(between_var, max_var) == ee_gte(between_var, max_var)

change_new_max_of(between_var, max_var) == ee_gt(between_var, max_var)

\* one call of the otsu_iteration(i, state) that _compute_change_otsu_threshold
\* defines for itself; i is 1-based here
change_otsu_iteration(i, state, counts, means, total, sum_all) ==
    LET w0 == ee_add(state.w0, counts[i])
        sum0 == ee_add(state.sum0, ee_multiply(counts[i], means[i]))
        w1 == ee_subtract(total, w0)
        valid == ee_And(ee_gt(w0, <<0, 1>>), ee_gt(w1, <<0, 1>>))
        mean0 == ee_divide(sum0, w0)
        mean1 == ee_divide(ee_subtract(sum_all, sum0), w1)
        between_var ==
            ee_multiply(valid,
                ee_multiply(ee_multiply(w0, w1), ee_pow2(ee_subtract(mean0, mean1))))
        new_max == change_new_max_of(between_var, state.max_var)
        max_var ==
            ee_add(ee_multiply(new_max, between_var),
                   ee_multiply(ee_Not(new_max), state.max_var))
        best_threshold ==
            ee_add(ee_multiply(new_max, means[i]),
                   ee_multiply(ee_Not(new_max), state.best_threshold))
    IN  [w0 |-> w0, sum0 |-> sum0, max_var |-> max_var,
         best_threshold |-> best_threshold]

\* ee.List.sequence(0, size-1).iterate(otsu_iteration, initial_state) of the
\* change solver, folded by halves as iterate is
RECURSIVE change_iterate(_, _, _, _, _, _, _)
change_iterate(lo, hi, state, counts, means, total, sum_all) ==
    IF lo > hi THEN state
    ELSE IF lo = hi THEN change_otsu_iteration(lo, state, counts, means, total, sum_all)
    ELSE LET mid == (lo + hi) \div 2
             left == change_iterate(lo, mid, state, counts, means, total, sum_all)
         IN  IF left.w0[2] > 0
             THEN change_iterate(mid + 1, hi, left, counts, means, total, sum_all)
             ELSE left

compute_change_otsu_threshold(h) ==
    LET counts == counts_of(h)
        means == means_of(h)
        total == total_of(h)
        sum_all == sum_all_of(h)
    IN  change_iterate(1, size_of(h), change_initial_state, counts, means, total,
                       sum_all).best_threshold

-----------------------------------------------------------------------------
(* Dates: datetime.strptime, timedelta, strftime, and ee filterDate *)

None == [kind |-> "None"]

IsLeap(y) == (y % 4 = 0 /\ y % 100 # 0) \/ y % 400 = 0

DaysInMonth(y, m) ==
    IF m = 2 THEN (IF IsLeap(y) THEN 29 ELSE 28)
    ELSE IF m \in {4, 6, 9, 11} THEN 30 ELSE 31

DaysInYear(y) == IF IsLeap(y) THEN 366 ELSE 365

\* strptime(date, "%Y-%m-%d") raises ValueError unless the date exists
ValidDate(date) ==
    /\ date.m \in 1..12
    /\ date.d \in 1..DaysInMonth(date.y, date.m)

RECURSIVE DaysBeforeMonth(_, _)
DaysBeforeMonth(y, m) ==
    IF m = 1 THEN 0 ELSE DaysBeforeMonth(y, m - 1) + DaysInMonth(y, m - 1)

RECURSIVE DaysBeforeYear(_)
DaysBeforeYear(y) ==
    IF y <= 2023 THEN 0 ELSE DaysBeforeYear(y - 1) + DaysInYear(y - 1)

\* the datetime of a valid date string, as a day ordinal (2023-01-01 is day 0)
strptime(date) == DaysBeforeYear(date.y) + DaysBeforeMonth(date.y, date.m) + date.d - 1

RECURSIVE DateOfDay(_, _, _)
DateOfDay(y, m, n) ==
    IF n >= DaysInYear(y) /\ m = 1 THEN DateOfDay(y + 1, 1, n - DaysInYear(y))
    ELSE IF n >= DaysInMonth(y, m) THEN DateOfDay(y, m + 1, n - DaysInMonth(y, m))
    ELSE [y |-> y, m |-> m, d |-> n + 1]

\* datetime.strftime("%Y-%m-%d")
strftime(n) == DateOfDay(2023, 1, n)

\* the "after" window shifted one day later
after_window_late(target_date, date, days) ==
    [start_date |-> strftime(target_date + 1),
     end_date |-> strftime(target_date + days + 1)]

\* search_direction == "after": start_date, end_date
after_window(target_date, date, days) ==
    [start_date |-> date, end_date |-> strftime(target_date + days)]

\* the "before" window ending one day after the target date
before_window_late(target_date, date, days) ==
    [start_date |-> strftime(target_date - days),
     end_date |-> strftime(target_date + 1)]

\* search_direction == "before": start_date, end_date
before_window(target_date, date, days) ==
    [start_date |-> strftime(target_date - days), end_date |-> date]

both_window(target_date, date, days) ==
    [start_date |-> strftime(target_date - days),
     end_date |-> strftime(target_date + days)]

\* filterDate with the end date included
filterDate_closed(collection, start_date, end_date) ==
    {t \in collection : strptime(start_date) <= t /\ t <= strptime(end_date)}

\* ImageCollection.filterDate(start, end): start inclusive, end exclusive
filterDate(collection, start_date, end_date) ==
    {t \in collection : strptime(start_date) <= t /\ t < strptime(end_date)}

-----------------------------------------------------------------------------
(* The backend: acquisitions, the scenes they show, the JRC layer *)

Pixels == 1..(GridN * GridN)
Row(p) == ((p - 1) \div GridN) + 1
Col(p) == ((p - 1) % GridN) + 1

\* the flood starts on 2024-03-01: acquisitions before it show the dry
\* scene, acquisitions from that day on the flooded one
FloodDate == [y |-> 2024, m |-> 3, d |-> 1]
FloodDay == strptime(FloodDate)

\* days with a Sentinel-1 acquisition over the region
S1_GRD(phase) ==
    {t \in (FloodDay - DateSpan - MaxRadius - 1)..(FloodDay + DateSpan + MaxRadius + 1) :
        t % RevisitDays = phase}

\* the flooded block and its centre, the pixel that may be tagged permanent water
BlockRows == 4..(3 + BlockSize)
InBlock(p) == Row(p) \in BlockRows /\ Col(p) \in BlockRows
BlockCentre(p) == Row(p) = 4 + (BlockSize \div 2) /\ Col(p) = 4 + (BlockSize \div 2)
Tagged(p) == BlockCentre(p)
InRiver(sc, p) == sc.background = "river" /\ Col(p) = 1
InPond(sc, p) == sc.background = "pond" /\ Col(p) = GridN /\ Row(p) <= 2

Scenes ==
    [background : {"flat", "river", "pond"},
     block : {"none", "uniform", "graded", "rough"},
     tag : {-1, 94, 95, 100},        \* JRC occurrence of the tagged pixel, -1: as elsewhere
     dry_land : {0, -1}]             \* JRC occurrence where water was never seen: 0, or -1 for no value

\* VV backscatter of the dry scene, dB: open water -20, land -10, and -4 at
\* the centre of a rough block
DryVV(sc, p) ==
    IF InRiver(sc, p) \/ InPond(sc, p) THEN -20
    ELSE IF sc.block = "rough" /\ BlockCentre(p) THEN -4
    ELSE -10

\* the block drops by 8 dB, the centre of a graded block by 10 dB and the
\* centre of a rough block by 12 dB
Drop(sc, p) ==
    IF sc.block = "none" \/ ~InBlock(p) \/ InRiver(sc, p) \/ InPond(sc, p) THEN 0
    ELSE IF sc.block = "graded" /\ BlockCentre(p) THEN -10
    ELSE IF sc.block = "rough" /\ BlockCentre(p) THEN -12
    ELSE -8

WetVV(sc, p) == DryVV(sc, p) + Drop(sc, p)

AcquiredVV(sc, t, p) == IF t < FloodDay THEN DryVV(sc, p) ELSE WetVV(sc, p)

\* JRC occurrence band: a value 0..100, or -1 where the band is masked
Occurrence(sc, p) ==
    IF InRiver(sc, p) THEN 100
    ELSE IF InPond(sc, p) THEN 40
    ELSE IF Tagged(p) /\ sc.tag # -1 THEN sc.tag
    ELSE sc.dry_land

-----------------------------------------------------------------------------
(* ee.Image: a value and a mask bit per pixel; an operation's output is     *)
(* masked wherever one of its inputs is                                    *)

Image(val, mask) == [kind |-> "Image", val |-> val, mask |-> mask]

\* an ee.Image whose lazy expression holds a query the backend fails on
Failed(query) == [kind |-> "Failed", query |-> query]

\* str(e) of the exception a failed request raises
str_e(request) == request

RECURSIVE SetSum(_, _)
SetSum(S, f) ==
    IF S = {} THEN 0
    ELSE LET x == CHOOSE y \in S : TRUE IN f[x] + SetSum(S \ {x}, f)

SetMin(S) == CHOOSE x \in S : \A y \in S : x <= y
SetMax(S) == CHOOSE x \in S : \A y \in S : x >= y

\* ee.Reducer.median over the values one pixel has in a collection
Median(vals) ==
    LET n == SetSum(DOMAIN vals, vals)
        V == DOMAIN vals
        AtOrBelow(v) == SetSum({u \in V : u <= v}, vals)
        lower == SetMin({v \in V : 2 * AtOrBelow(v) >= n})
        upper == SetMin({v \in V : 2 * AtOrBelow(v) >= n + 1})
    IN  (lower + upper) \div 2

\* s1_collection.median().clip(region), band VV
median_composite(sc, collection) ==
    Image([p \in Pixels |->
              LET V == {AcquiredVV(sc, t, p) : t \in collection}
              IN  Median([v \in V |-> Cardinality({t \in collection : AcquiredVV(sc, t, p) = v})])],
          [p \in Pixels |-> TRUE])

img_subtract(a, b) ==
    Image([p \in Pixels |-> a.val[p] - b.val[p]],
          [p \in Pixels |-> a.mask[p] /\ b.mask[p]])

\* image.lt(threshold) with lte in its place
img_lte(a, threshold) ==
    Image([p \in Pixels |-> IF RLess(threshold, Num(a.val[p])) THEN 0 ELSE 1], a.mask)

\* image.lt(threshold), threshold an ee.Number
img_lt(a, threshold) ==
    Image([p \in Pixels |-> IF RLess(Num(a.val[p]), threshold) THEN 1 ELSE 0], a.mask)

img_gte(a, n) == Image([p \in Pixels |-> IF a.val[p] >= n THEN 1 ELSE 0], a.mask)

img_Or(a, b) ==
    Image([p \in Pixels |-> IF a.val[p] # 0 \/ b.val[p] # 0 THEN 1 ELSE 0],
          [p \in Pixels |-> a.mask[p] /\ b.mask[p]])

img_And(a, b) ==
    Image([p \in Pixels |-> IF a.val[p] # 0 /\ b.val[p] # 0 THEN 1 ELSE 0],
          [p \in Pixels |-> a.mask[p] /\ b.mask[p]])

img_Not(a) == Image([p \in Pixels |-> IF a.val[p] = 0 THEN 1 ELSE 0], a.mask)

\* ee.Image("JRC/GSW1_4/GlobalSurfaceWater").clip(region).select("occurrence")
jrc_occurrence(sc) ==
    Image([p \in Pixels |-> IF Occurrence(sc, p) < 0 THEN 0 ELSE Occurrence(sc, p)],
          [p \in Pixels |-> Occurrence(sc, p) >= 0])

\* the distinct values of the unmasked pixels, each with its pixel count
value_counts(img) ==
    LET seen == {p \in Pixels : img.mask[p]}
        values == {img.val[p] : p \in seen}
    IN  {<<v, Cardinality({p \in seen : img.val[p] = v})>> : v \in values}

\* ee.Reducer.histogram(255, 1 / perDb) over <<value, count>> pairs: buckets
\* of 1/perDb dB from the lowest to the highest populated one; the mean of an
\* empty bucket is written as its lower edge
histogram_of(tab, perDb) ==
    LET lo == SetMin({t[1] : t \in tab}) * perDb
        hi == SetMax({t[1] : t \in tab}) * perDb
        n == hi - lo + 1
        InBucket(k) == {t \in tab : t[1] * perDb = lo + k - 1}
        CountOf == [t \in tab |-> t[2]]
        Weighted == [t \in tab |-> t[1] * t[2]]
    IN  [histogram |-> [k \in 1..n |-> SetSum(InBucket(k), CountOf)],
         bucketMeans |->
            [k \in 1..n |->
                IF InBucket(k) = {} THEN Rat(lo + k - 1, perDb)
                ELSE Rat(SetSum(InBucket(k), Weighted), SetSum(InBucket(k), CountOf))]]

\* image.reduceRegion(reducer=ee.Reducer.histogram(255, 1 / perDb), ...)
reduce_histogram(img, perDb) == histogram_of(value_counts(img), perDb)

-----------------------------------------------------------------------------
(* The pipeline: composites, detectors, fusion, area *)

WaterBucketsPerDb == 10     \* ee.Reducer.histogram(255, 0.1): 10 buckets per dB
ChangeBucketsPerDb == 5     \* ee.Reducer.histogram(255, 0.2): 5 buckets per dB
PermanentOccurrence == 95   \* occurrence >= 95 is permanent water
StatsScale == 30            \* metres, reduceRegion of _calculate_flood_stats
ImpactScale == 100          \* metres, reduceRegion of get_flood_impact_assessment

\* [window, image] of _get_sar_composite(date, region, days, search_direction);
\* the window is kept for the properties, the method returns the image
get_sar_composite(sc, phase, date, days, search_direction, backend_fails) ==
    IF ~ValidDate(date) THEN [window |-> None, image |-> None]
    ELSE
        LET target_date == strptime(date)
            w == IF search_direction = "before" THEN before_window(target_date, date, days)
                 ELSE IF search_direction = "after" THEN after_window(target_date, date, days)
                 ELSE both_window(target_date, date, days)
            s1_collection == filterDate(S1_GRD(phase), w.start_date, w.end_date)
            count == Cardinality(s1_collection)
        IN  [window |-> [kind |-> "Window", start_date |-> w.start_date,
                         end_date |-> w.end_date, collection |-> s1_collection],
             image |-> IF backend_fails THEN None       \* except Exception: return None
                       ELSE IF count = 0 THEN None
                       ELSE median_composite(sc, s1_collection)]

\* _otsu_water_detection(image, region): the threshold and the water mask
otsu_water_detection(image) ==
    LET vv == image
        hist == reduce_histogram(vv, WaterBucketsPerDb)
        threshold == compute_otsu_threshold(hist)
    IN  [threshold |-> threshold, water_mask |-> img_lt(vv, threshold)]

\* _otsu_change_detection(change_index, region): the threshold and the flood mask
otsu_change_detection(change_index) ==
    LET change == change_index
        hist == reduce_histogram(change, ChangeBucketsPerDb)
        threshold == compute_change_otsu_threshold(hist)
    IN  [threshold |-> threshold, flood_mask |-> img_lt(change, threshold)]

\* occurrence > 95 in place of >= 95
permanent_water_gt(sc) == img_gte(jrc_occurrence(sc), PermanentOccurrence + 1)

\* jrc.select("occurrence").gte(95)
permanent_water_of(sc) == img_gte(jrc_occurrence(sc), PermanentOccurrence)

\* a fusion without the permanent-water exclusion
fuse_no_exclusion(by_change, water, permanent) == img_Or(by_change, water)

\* a fusion with Or and And swapped
fuse_swapped(by_change, water, permanent) ==
    img_Or(img_And(by_change, water), img_Not(permanent))

\* get_flood_change_detection: (flood_by_change.Or(peek_water)).And(permanent_water.Not())
fuse_by_bounds(by_change, water, permanent) ==
    img_And(img_Or(by_change, water), img_Not(permanent))

\* get_flood_change_detection_by_geojson: the same expression
fuse_by_geojson(by_change, water, permanent) ==
    img_And(img_Or(by_change, water), img_Not(permanent))

\* get_flood_impact_by_geojson: the same expression
fuse_impact(by_change, water, permanent) ==
    img_And(img_Or(by_change, water), img_Not(permanent))

\* Python round(x, 2) of x = n / d (d > 0), in hundredths: ties go to even
round2(n, d) ==
    LET q == (100 * n) \div d
        r == (100 * n) % d
    IN  IF 2 * r < d THEN q
        ELSE IF 2 * r > d THEN q + 1
        ELSE IF q % 2 = 0 THEN q ELSE q + 1

RECURSIVE RangeSum(_, _, _)
RangeSum(f, lo, hi) ==
    IF lo > hi THEN 0
    ELSE IF lo = hi THEN f[lo]
    ELSE LET mid == (lo + hi) \div 2 IN RangeSum(f, lo, mid) + RangeSum(f, mid + 1, hi)

\* A region gives each pixel its coverage in halves: 2 for a pixel inside, 1
\* for a pixel the boundary cuts in half, 0 for a pixel outside.  The sum
\* reducer weighs each pixel by its coverage.
FullRegion == [p \in Pixels |-> 2]

\* a reduction that ignores the geometry
reduce_sum_whole_grid(f, geometry) == RangeSum(f, 1, GridN * GridN)

\* image.reduceRegion(reducer=ee.Reducer.sum(), geometry=region, ...) of the
\* band f, twice the sum (coverage is in halves)
reduce_sum(f, geometry) ==
    RangeSum([p \in Pixels |-> geometry[p] * f[p]], 1, GridN * GridN)

\* sum over the region of image * pixelArea, in half square metres; masked
\* pixels do not enter a reduction
reduce_area_sum(img, geometry, scale) ==
    reduce_sum([p \in Pixels |-> IF img.mask[p] THEN img.val[p] * scale * scale ELSE 0],
               geometry)

\* _calculate_flood_stats(flood_area, region); areas in hundredths of a km2.
\* The reduction evaluates the mask; an exception becomes {"error": str(e)}.
calculate_flood_stats(img, geometry, backend_fails) ==
    IF backend_fails THEN [error |-> str_e("stats")]
    ELSE IF img.kind = "Failed" THEN [error |-> str_e(img.query)]
    ELSE [flood_area_km2 |-> round2(reduce_area_sum(img, geometry, StatsScale), 2000000),
          unit |-> "km2"]

-----------------------------------------------------------------------------
(* The impact assessment: get_flood_impact_assessment and its sub-steps.    *)
(* Areas are reported in hundredths of a km2, percentages in hundredths of *)
(* a percent.                                                              *)

WorldPopLatestYear == 2020      \* data_year = min(target_year, 2020)
MinAreaM2 == 10000              \* 0.01 km2, the test "area > 0.01"

\* backend: WorldPop/GP/100m/pop of a year, people per pixel
WorldPop(year, p) == (year - 2000) + Col(p)

\* backend: ESA/WorldCover/v200, band Map
WorldCover(p) ==
    IF Col(p) <= 2 THEN 40
    ELSE IF Col(p) = 3 THEN 50
    ELSE IF Col(p) <= 5 THEN 10
    ELSE IF Col(p) = 6 THEN 30
    ELSE IF Col(p) = 7 THEN 20
    ELSE IF Col(p) = 8 THEN 90
    ELSE 80

\* backend: JRC/GHSL/P2023A/GHS_BUILT_S/2020, band built_surface
GHSL(p) == IF Col(p) = 3 THEN 500 ELSE IF Col(p) = 2 THEN 20 ELSE 0

\* landcover_classes, the keys of the dictionary
landcover_classes == {40, 50, 10, 30, 20, 90}

\* Python round(x) of x = n / d (d > 0): ties go to even
round0(n, d) ==
    LET q == n \div d
        r == n % d
    IN  IF 2 * r < d THEN q
        ELSE IF 2 * r > d THEN q + 1
        ELSE IF q % 2 = 0 THEN q ELSE q + 1

\* the value of a pixel of the mask in a product: 0 where the mask is masked,
\* as a masked pixel does not enter the reduction
mask_band(flood_mask) ==
    [p \in Pixels |-> IF flood_mask.mask[p] THEN flood_mask.val[p] ELSE 0]

\* step 1 of get_flood_impact_assessment: results["flood_area"]
assess_flood_area(flood_mask, geometry) ==
    [value |-> round2(reduce_area_sum(flood_mask, geometry, ImpactScale), 2000000),
     unit |-> "km2"]

\* int(year[:4]) if year else 2020; the empty string is written None
target_year_of(year) == IF year = None THEN WorldPopLatestYear ELSE year.y

\* the target year used as it is
data_year_unclamped(target_year) == target_year

\* data_year = min(target_year, 2020)
data_year_of(target_year) ==
    IF target_year < WorldPopLatestYear THEN target_year ELSE WorldPopLatestYear

\* a total of 0 reported as 100 percent
percentage_full_when_empty(affected, total) ==
    IF total > 0 THEN round2(affected * 100, total) ELSE 10000

\* round((affected / total * 100) if total > 0 else 0, 2), in hundredths
percentage_of(affected, total) ==
    IF total > 0 THEN round2(affected * 100, total) ELSE 0

\* _assess_population_impact(flood_mask, region, year)
assess_population_impact(flood_mask, geometry, year, backend_fails) ==
    IF backend_fails THEN [error |-> str_e("population")]
    ELSE
        LET data_year == data_year_of(target_year_of(year))
            band == mask_band(flood_mask)
            affected == reduce_sum([p \in Pixels |-> band[p] * WorldPop(data_year, p)],
                                   geometry)
            total == reduce_sum([p \in Pixels |-> WorldPop(data_year, p)], geometry)
        IN  [affected |-> round0(affected, 2),
             total |-> round0(total, 2),
             percentage |-> percentage_of(affected, total),
             data_source |-> <<"WorldPop", data_year>>]

\* the test that admits a class to the breakdown, with >= in place of >
reportable_gte(area) == area >= 2 * MinAreaM2

\* if area > 0.01; area in half square metres
reportable(area) == area > 2 * MinAreaM2

\* _assess_landcover_impact(flood_mask, region)
assess_landcover_impact(flood_mask, geometry, backend_fails) ==
    IF backend_fails THEN [error |-> str_e("landcover")]
    ELSE
        LET band == mask_band(flood_mask)
            area(c) ==
                reduce_sum([p \in Pixels |->
                               IF WorldCover(p) = c
                               THEN band[p] * ImpactScale * ImpactScale ELSE 0],
                           geometry)
            listed == {c \in landcover_classes : reportable(area(c))}
        IN  [breakdown |-> [c \in listed |-> [area_km2 |-> round2(area(c), 2000000)]],
             data_source |-> "ESA WorldCover 2021"]

\* _assess_urban_impact(flood_mask, region)
assess_urban_impact(flood_mask, geometry, backend_fails) ==
    IF backend_fails THEN [error |-> str_e("urban")]
    ELSE
        LET band == mask_band(flood_mask)
            built(p) == IF GHSL(p) > 0 THEN 1 ELSE 0
            affected ==
                reduce_sum([p \in Pixels |-> band[p] * built(p) * ImpactScale * ImpactScale],
                           geometry)
            total == reduce_sum([p \in Pixels |-> built(p) * ImpactScale * ImpactScale],
                                geometry)
        IN  [affected_area_km2 |-> round2(affected, 2000000),
             total_area_km2 |-> round2(total, 2000000),
             percentage |-> percentage_of(affected, total),
             data_source |-> "GHSL 2020"]

\* _generate_impact_layers(flood_mask, region): the three tile layers
generate_impact_layers(flood_mask, geometry, backend_fails) ==
    IF backend_fails THEN [error |-> str_e("layers")]
    ELSE [population |-> "tile_url", landcover |-> "tile_url", urban |-> "tile_url"]

\* results = {"assessment_date": ..., "analysis_period": ...}
new_results(pre, peek) ==
    [kind |-> "assessment", analysis_period |-> <<pre, peek>>]

\* except Exception as e: return {"error": str(e)}
assessment_error(e) == [kind |-> "error", error |-> <<e>>]

\* the first reduction raises: the request fails, or the mask holds a failing query
area_raises(flood_mask, faults) == "area" \in faults \/ flood_mask.kind = "Failed"

area_exception(flood_mask, faults) ==
    IF "area" \in faults THEN str_e("area") ELSE str_e(flood_mask.query)

\* an entry added to a dictionary
Put(dict, key, value) ==
    [k \in DOMAIN dict \cup {key} |-> IF k = key THEN value ELSE dict[k]]

\* get_flood_impact_assessment(flood_mask, region, pre_date, peek_date) as a
\* whole; faults are the sub-steps whose backend requests fail
get_flood_impact_assessment(flood_mask, geometry, pre, peek, faults) ==
    IF area_raises(flood_mask, faults)
    THEN assessment_error(area_exception(flood_mask, faults))
    ELSE
        LET r1 == Put(new_results(pre, peek), "flood_area",
                      assess_flood_area(flood_mask, geometry))
            r2 == Put(r1, "population",
                      assess_population_impact(flood_mask, geometry, peek,
                                               "population" \in faults))
            r3 == Put(r2, "landcover",
                      assess_landcover_impact(flood_mask, geometry, "landcover" \in faults))
            r4 == Put(r3, "urban",
                      assess_urban_impact(flood_mask, geometry, "urban" \in faults))
        IN  Put(r4, "layers",
                generate_impact_layers(flood_mask, geometry, "layers" \in faults))

-----------------------------------------------------------------------------
(* The dialogue graph of src/agent/flood_agent.py.  One process serves the  *)
(* conversations (threads); the checkpointer keeps a FloodAgentState per    *)
(* thread, and the search tool keeps its results in two globals of the      *)
(* module.  Strings stand for themselves, Python None is written PyNone    *)
(* where a field holds strings and None where it holds a structure; an      *)
(* absent key reads as its default.                                         *)

Threads == 1..MaxThreads

\* the flood events a conversation can be about; each names its own values
Events == {"e1", "e2"}

PyNone == "None"
Truthy(v) == v \notin {PyNone, ""}
EmptyDict == [k \in {} |-> PyNone]

\* d.get(k) and d.get(k, default)
dict_get(d, k) == IF k \in DOMAIN d THEN d[k] ELSE PyNone
dict_get_default(d, k, default) == IF k \in DOMAIN d THEN d[k] ELSE default

\* a or b
py_or(a, b) == IF Truthy(a) THEN a ELSE b

\* a list, and the empty list
List(items) == [kind |-> "list", items |-> items]
EmptyList == List(<<>>)

\* the content of a message: its text, and for a response of the model the
\* ```json block it ends with ("none": no block, "broken": a block that is
\* not valid JSON, "json": the dictionary in data)
Content(text, block, data) == [text |-> text, block |-> block, data |-> data]
Message(type, content, tool_calls) ==
    [type |-> type, content |-> content, tool_calls |-> tool_calls]

NoMessage == Message("none", Content("", "none", EmptyDict), <<>>)
HumanMessage == Message("human", Content("query", "none", EmptyDict), <<>>)
ToolMessage(query) == Message("tool", Content(query, "none", EmptyDict), <<>>)
cancel_message == Message("ai", Content("Cancelled", "none", EmptyDict), <<>>)
report_message(flood_report) ==
    Message("ai", Content("Information confirmed, report generated", "none", EmptyDict), <<>>)

\* the messages channel keeps its length and its last message here
add_messages(messages, m) == [len |-> messages.len + 1, last |-> m]

\* the state of a thread nothing was written to
EmptyState ==
    [messages |-> [len |-> 0, last |-> NoMessage],
     event |-> PyNone, event_description |-> PyNone,
     flood_report |-> None, report_document |-> None,
     pre_date |-> PyNone, after_date |-> PyNone, peek_date |-> PyNone,
     is_valid_flood_query |-> FALSE,
     stage |-> PyNone, user_confirmed |-> FALSE,
     location |-> PyNone,
     coordinates |-> None, bounds |-> None, geojson |-> None, geo_data |-> None,
     search_sources |-> None]

\* state.get('stage', 'initial')
get_stage(state) == IF state.stage = PyNone THEN "initial" ELSE state.stage

\* the state after Command(update=...): messages are appended, other keys replaced
Update(state, update) ==
    [k \in DOMAIN state |->
        IF k \notin DOMAIN update THEN state[k]
        ELSE IF k = "messages" THEN add_messages(state[k], update[k])
        ELSE update[k]]

\* the six fields of an event that extraction and confirmation handle
EventFields ==
    {"event", "event_description", "location", "pre_date", "peek_date", "after_date"}

\* field_names of _extract_flood_info_from_content
field_names == EventFields \cup {"stage"}

\* _extract_flood_info_from_content(content): the truthy fields of the json
\* block, nothing without a block or with a block that does not parse
extract_flood_info_from_content(content) ==
    IF content.block # "json" THEN EmptyDict
    ELSE [f \in {g \in DOMAIN content.data \cap field_names : Truthy(content.data[g])} |->
             content.data[f]]

\* the results search_flood_event(query) stores; by is the thread whose tool
\* call produced them, kept for the properties
sources_of(by, query) == List(<<[title |-> query, url |-> query, by |-> by]>>)
contents_of(by, query) ==
    List(<<[title |-> query, url |-> query, content |-> query, by |-> by]>>)

\* _format_sources_text(sources)
format_sources_text(sources) ==
    IF Len(sources.items) = 0 THEN [kind |-> "no-sources", lines |-> <<>>, few |-> FALSE]
    ELSE [kind |-> "sources",
          lines |-> [i \in 1..Len(sources.items) |->
                        <<i, sources.items[i].title, sources.items[i].url>>],
          few |-> Len(sources.items) < 10]

\* search_contents_text of processing_node
search_contents_text_of(contents) ==
    IF Len(contents.items) > 0
    THEN [kind |-> "sources",
          items |-> [i \in 1..Len(contents.items) |->
                        <<i, contents.items[i].title, contents.items[i].content,
                          contents.items[i].url>>]]
    ELSE [kind |-> "no-materials", items |-> <<>>]

\* geo_data of processing_node: the geocoder's answer for a location (found
\* or not), None without a location
get_location_coordinates(location, found) ==
    IF ~Truthy(location) THEN None
    ELSE IF found
    THEN [kind |-> "geo", location |-> location,
          coordinates |-> [kind |-> "coordinates", of |-> location],
          bounds |-> [kind |-> "bounds", of |-> location],
          geojson |-> [kind |-> "geojson", of |-> location]]
    ELSE [kind |-> "geo", location |-> location,
          coordinates |-> [kind |-> "coordinates", of |-> "0.0, 0.0"],
          bounds |-> [kind |-> "bounds", of |-> "world"],
          geojson |-> None]

\* detailed_report: the model's answer to the report prompt, or the default
\* text when the model fails
detailed_report_of(state, search_contents_text, model_fails) ==
    IF model_fails
    THEN [kind |-> "default",
          overview |-> py_or(state.event_description, "No detailed description available")]
    ELSE [kind |-> "model",
          event |-> py_or(state.event, "Unknown event"),
          location |-> py_or(state.location, "To be determined"),
          search_contents |-> search_contents_text]

\* FLOOD_REPORT_TEMPLATE.format(...)
flood_report_of(state, detailed_report, sources_text) ==
    [kind |-> "report",
     event |-> py_or(state.event, "Unknown event"),
     pre_date |-> py_or(state.pre_date, "To be determined"),
     peek_date |-> py_or(state.peek_date, "To be determined"),
     after_date |-> py_or(state.after_date, "To be determined"),
     location |-> py_or(state.location, "To be determined"),
     detailed_report |-> detailed_report,
     sources |-> sources_text]

\* json.loads(text) for the texts a reply can be: whether it parses, and the
\* value ("dict", "null" or "number") it parses to
json_loads(text) ==
    IF text = "{}" THEN [ok |-> TRUE, type |-> "dict", dict |-> EmptyDict]
    ELSE IF text = "{\"cancelled\": true}"
    THEN [ok |-> TRUE, type |-> "dict", dict |-> [k \in {"cancelled"} |-> TRUE]]
    ELSE IF text = "{\"event\": \"edited\"}"
    THEN [ok |-> TRUE, type |-> "dict", dict |-> [k \in {"event"} |-> "edited"]]
    ELSE IF text = "null" THEN [ok |-> TRUE, type |-> "null", dict |-> EmptyDict]
    ELSE IF text = "5" THEN [ok |-> TRUE, type |-> "number", dict |-> EmptyDict]
    ELSE [ok |-> FALSE, type |-> "null", dict |-> EmptyDict]

\* the value interrupt() returns: a string, a dictionary or something else
Reply(form, text, dict) == [form |-> form, text |-> text, dict |-> dict]
NoReply == Reply("none", "", EmptyDict)

\* confirmed_data of confirmation_node
confirmed_data_of(confirmed_data_raw) ==
    IF confirmed_data_raw.form = "str"
    THEN IF json_loads(confirmed_data_raw.text).ok
         THEN [type |-> json_loads(confirmed_data_raw.text).type,
               dict |-> json_loads(confirmed_data_raw.text).dict]
         ELSE [type |-> "dict", dict |-> EmptyDict]
    ELSE IF confirmed_data_raw.form = "dict"
    THEN [type |-> "dict", dict |-> confirmed_data_raw.dict]
    ELSE [type |-> "dict", dict |-> EmptyDict]

\* not confirmed_data
py_not(confirmed_data) ==
    \/ confirmed_data.type = "null"
    \/ confirmed_data.type = "dict" /\ DOMAIN confirmed_data.dict = {}

\* confirmed_data.get("cancelled") raises AttributeError unless
\* confirmed_data is a dictionary
get_cancelled_raises(confirmed_data) == confirmed_data.type # "dict"

\* the cancel test with the flag alone: an empty reply is not a cancellation
user_cancelled_flag_only(confirmed_data) ==
    /\ confirmed_data.type = "dict"
    /\ "cancelled" \in DOMAIN confirmed_data.dict
    /\ confirmed_data.dict["cancelled"]

\* not confirmed_data or confirmed_data.get("cancelled")
user_cancelled(confirmed_data) ==
    \/ py_not(confirmed_data)
    \/ /\ "cancelled" \in DOMAIN confirmed_data.dict
       /\ confirmed_data.dict["cancelled"]

\* the update of entry_node for a completed stage, without user_confirmed
entry_reset_keeps_confirmed ==
    [stage |-> "initial", event |-> PyNone, event_description |-> PyNone,
     flood_report |-> None]

\* the update of entry_node for a completed stage
entry_reset ==
    [stage |-> "initial", user_confirmed |-> FALSE, event |-> PyNone,
     event_description |-> PyNone, flood_report |-> None]

\* entry_node(state): [goto, update]
entry_node(state) ==
    IF get_stage(state) = "completed"
    THEN [goto |-> "chat_node", update |-> entry_reset]
    ELSE [goto |-> "chat_node", update |-> EmptyDict]

\* chat_node(state) for the response the model gave
chat_node(state, response) ==
    IF Len(response.tool_calls) > 0
    THEN [goto |-> "tool_node", update |-> [messages |-> response]]
    ELSE [goto |-> "extraction_node", update |-> [messages |-> response]]

\* extraction_node sending an event with complete information on without
\* asking for confirmation
extraction_target_processing == "processing_node"

\* goto of extraction_node for an event that needs confirmation
extraction_target == "confirmation_node"

\* extraction_node(state)
extraction_node(state) ==
    IF state.messages.len = 0 THEN [goto |-> "__end__", update |-> EmptyDict]
    ELSE
        LET extracted_info == extract_flood_info_from_content(state.messages.last.content)
            merged == [f \in EventFields |-> py_or(dict_get(extracted_info, f), state[f])]
            has_complete_info ==
                \A f \in {"event", "pre_date", "peek_date", "after_date"} :
                    Truthy(dict_get(extracted_info, f))
            user_confirmed == state.user_confirmed
            current_stage == get_stage(state)
        IN  IF has_complete_info /\ ~user_confirmed /\ current_stage # "completed"
            THEN [goto |-> extraction_target,
                  update |-> [f \in EventFields \cup {"stage"} |->
                                 IF f = "stage" THEN "pending_confirmation" ELSE merged[f]]]
            ELSE [goto |-> "__end__", update |-> merged]

\* the data of the interrupt confirmation_node raises
interrupt_data(state) == [f \in EventFields |-> state[f]]

\* the stage confirmation_node writes for a confirmed event, were it "completed"
confirmed_stage_completed == "completed"

\* the stage confirmation_node writes for a confirmed event
confirmed_stage == "confirmed"

\* confirmation_node(state) once interrupt() has returned confirmed_data_raw:
\* [goto, update], or goto "raise" for the AttributeError
confirmation_node(state, confirmed_data_raw) ==
    LET confirmed_data == confirmed_data_of(confirmed_data_raw)
    IN  IF ~py_not(confirmed_data) /\ get_cancelled_raises(confirmed_data)
        THEN [goto |-> "raise", update |-> EmptyDict]
        ELSE IF user_cancelled(confirmed_data)
        THEN [goto |-> "__end__",
              update |-> [messages |-> cancel_message, stage |-> "initial",
                          user_confirmed |-> FALSE]]
        ELSE [goto |-> "processing_node",
              update |-> [f \in EventFields \cup {"stage", "user_confirmed"} |->
                             IF f = "stage" THEN confirmed_stage
                             ELSE IF f = "user_confirmed" THEN TRUE
                             ELSE dict_get_default(confirmed_data.dict, f, state[f])]]

\* the update processing_node returns
processing_update(state, geo_data, search_contents_text, model_fails, pending_sources) ==
    LET located == geo_data.kind # "None"
        detailed_report == detailed_report_of(state, search_contents_text, model_fails)
        flood_report ==
            flood_report_of(state, detailed_report, format_sources_text(pending_sources))
    IN  [messages |-> report_message(flood_report),
         event |-> state.event,
         event_description |-> state.event_description,
         flood_report |-> flood_report,
         report_document |-> flood_report,
         pre_date |-> state.pre_date,
         after_date |-> state.after_date,
         peek_date |-> state.peek_date,
         location |-> state.location,
         coordinates |-> IF located THEN geo_data.coordinates
                         ELSE [kind |-> "coordinates", of |-> "105.0, 35.0"],
         bounds |-> IF located THEN geo_data.bounds ELSE [kind |-> "bounds", of |-> "China"],
         geojson |-> IF located THEN geo_data.geojson ELSE None,
         geo_data |-> IF located THEN geo_data ELSE [kind |-> "geo-empty"],
         search_sources |-> pending_sources,
         stage |-> "completed",
         user_confirmed |-> TRUE,
         is_valid_flood_query |-> TRUE]

\* the locals of processing_node before it runs
NoLocals == [geo_data |-> None, search_contents_text |-> None]

\* the tool calls of the current run
ToolCallsIn(p) == Cardinality({i \in 1..Len(p) : p[i] = "tool_node"})

DialogueIdle ==
    /\ thread_state = [t \in Threads |-> EmptyState]
    /\ node = [t \in Threads |-> "idle"]
    /\ path = [t \in Threads |-> <<>>]
    /\ resume = [t \in Threads |-> NoReply]
    /\ locals = [t \in Threads |-> NoLocals]
    /\ pending_search_sources = EmptyList
    /\ pending_search_contents = EmptyList
    /\ served = 0

-----------------------------------------------------------------------------
(* Runs *)

DateInputs ==
    {strftime(FloodDay + k) : k \in (-DateSpan)..DateSpan} \cup {[y |-> 2024, m |-> 2, d |-> 30]}

DefaultScene == [background |-> "flat", block |-> "uniform", tag |-> 100, dry_land |-> 0]

\* the backend requests a method builds or issues, in the order of the source
RequestsOf(method) ==
    IF method = "bounds"
    THEN {"pre_composite", "peek_composite", "change_histogram", "water_histogram",
          "map_id", "stats"}
    ELSE IF method = "geojson"
    THEN {"region_bounds", "pre_composite", "peek_composite", "change_histogram",
          "water_histogram", "map_id", "stats"}
    ELSE {"pre_composite", "peek_composite", "change_histogram", "water_histogram",
          "area", "population", "landcover", "urban", "layers"}

\* return {"error": "无法获取足够的SAR影像进行变化检测"} / "...进行分析"
insufficient_result(method) ==
    [kind |-> "error",
     error |-> IF method = "impact" THEN <<"insufficient SAR imagery for the analysis">>
               ELSE <<"insufficient SAR imagery for change detection">>]

\* except Exception as e: return {"error": f"洪水变化检测失败: {str(e)}"} / "洪水损失评估失败"
except_result(method, e) ==
    [kind |-> "error",
     error |-> IF method = "impact" THEN <<"flood impact assessment failed", e>>
               ELSE <<"flood change detection failed", e>>]

\* the test of line 706 without its second operand
insufficient_pre_only(pre, peek) == pre.kind = "None"

\* if pre_image is None or peek_image is None
insufficient(pre, peek) == pre.kind = "None" \/ peek.kind = "None"

PipeStart ==
    /\ pc = "pre"
    /\ pre_window = None /\ peek_window = None
    /\ pre_image = None /\ peek_image = None
    /\ change_threshold = <<0, 1>> /\ water_threshold = <<0, 1>>
    /\ flood_by_change = None /\ peek_water = None
    /\ permanent_water = None /\ flood_area = None
    /\ result = None
    /\ region = FullRegion
    /\ calls = {}

OtsuIdle ==
    /\ solver = "water"
    /\ histogram = [histogram |-> <<0>>, bucketMeans |-> <<<<0, 1>>>>]
    /\ otsu_i = 1
    /\ otsu_state = water_initial_state
    /\ otsu_pc = "idle"
    /\ otsu_result = <<0, 1>>

PipeIdle ==
    /\ op = "bounds"
    /\ pre_date = FloodDate /\ peek_date = FloodDate
    /\ days_range = MaxRadius /\ obs_phase = 0
    /\ scene = DefaultScene
    /\ pc = "idle"
    /\ pre_window = None /\ peek_window = None
    /\ pre_image = None /\ peek_image = None
    /\ change_threshold = <<0, 1>> /\ water_threshold = <<0, 1>>
    /\ flood_by_change = None /\ peek_water = None
    /\ permanent_water = None /\ flood_area = None
    /\ result = None
    /\ region = FullRegion
    /\ outage = {} /\ calls = {}

\* a request: any scene under the default dates, or any dates over the default
\* scene, or the default request with up to MaxOutages failing backend
\* requests.  get_flood_impact_by_geojson passes its own days_range, the
\* default of the other two methods.
Init ==
    /\ DialogueIdle
    /\ OtsuIdle
    /\ PipeStart
    /\ op \in {"bounds", "geojson", "impact"}
    /\ \/ /\ scene \in Scenes
          /\ pre_date = strftime(FloodDay - 1)
          /\ peek_date = FloodDate
          /\ days_range = MaxRadius
          /\ obs_phase = 0
          /\ outage = {}
       \/ /\ scene = DefaultScene
          /\ pre_date \in DateInputs
          /\ peek_date \in DateInputs
          /\ days_range \in 1..MaxRadius
          /\ obs_phase \in 0..(RevisitDays - 1)
          /\ op = "impact" => days_range = MaxRadius
          /\ outage = {}
       \/ /\ scene = DefaultScene
          /\ pre_date = strftime(FloodDay - 1)
          /\ peek_date = FloodDate
          /\ days_range = MaxRadius
          /\ obs_phase = 0
          /\ outage \in {o \in SUBSET RequestsOf(op) :
                            Cardinality(o) >= 1 /\ Cardinality(o) <= MaxOutages}

\* bounds_list = region.bounds().getInfo()[...] raises in the _by_geojson method
RegionBoundsFails ==
    /\ pc = "pre"
    /\ op = "geojson" /\ "region_bounds" \in outage
    /\ result' = except_result(op, str_e("region_bounds"))
    /\ calls' = calls \cup {"region_bounds"}
    /\ pc' = "done"
    /\ UNCHANGED <<otsu_vars, dialogue_vars>>
    /\ UNCHANGED <<op, pre_date, peek_date, days_range, obs_phase, scene, region, outage,
                   pre_window, peek_window, pre_image, peek_image, change_threshold,
                   water_threshold, flood_by_change, peek_water, permanent_water,
                   flood_area>>

GetPreComposite ==
    /\ pc = "pre"
    /\ ~(op = "geojson" /\ "region_bounds" \in outage)
    /\ LET c == get_sar_composite(scene, obs_phase, pre_date, days_range, "before",
                                  "pre_composite" \in outage)
       IN  pre_window' = c.window /\ pre_image' = c.image
    /\ calls' = calls \cup (IF op = "geojson" THEN {"region_bounds"} ELSE {})
                      \cup {"pre_composite"}
    /\ pc' = "peek"
    /\ UNCHANGED <<otsu_vars, dialogue_vars>>
    /\ UNCHANGED <<op, pre_date, peek_date, days_range, obs_phase, scene, region, outage,
                   peek_window, peek_image, change_threshold, water_threshold,
                   flood_by_change, peek_water, permanent_water, flood_area, result>>

GetPeekComposite ==
    /\ pc = "peek"
    /\ LET c == get_sar_composite(scene, obs_phase, peek_date, days_range, "after",
                                  "peek_composite" \in outage)
       IN  peek_window' = c.window /\ peek_image' = c.image
    /\ calls' = calls \cup {"peek_composite"}
    /\ pc' = "check"
    /\ UNCHANGED <<otsu_vars, dialogue_vars>>
    /\ UNCHANGED <<op, pre_date, peek_date, days_range, obs_phase, scene, region, outage,
                   pre_window, pre_image, change_threshold, water_threshold,
                   flood_by_change, peek_water, permanent_water, flood_area, result>>

\* if pre_image is None or peek_image is None: return {"error": ...}
InsufficientImagery ==
    /\ pc = "check"
    /\ insufficient(pre_image, peek_image)
    /\ result' = insufficient_result(op)
    /\ pc' = "done"
    /\ UNCHANGED <<otsu_vars, dialogue_vars>>
    /\ UNCHANGED <<op, pre_date, peek_date, days_range, obs_phase, scene, region, outage, calls,
                   pre_window, peek_window, pre_image, peek_image, change_threshold,
                   water_threshold, flood_by_change, peek_water, permanent_water,
                   flood_area>>

\* change_index = vv_peek.subtract(vv_pre); flood_by_change = _otsu_change_detection(...)
\* The histogram query is part of the lazy expression of the mask: a failure
\* of it shows when the mask is evaluated.  (select("VV") on None would raise
\* AttributeError, which the method's except clause turns into its error
\* result.)
OtsuChangeDetection ==
    /\ pc = "check"
    /\ ~insufficient(pre_image, peek_image)
    /\ IF pre_image.kind = "None" \/ peek_image.kind = "None"
       THEN /\ result' = except_result(op, "'NoneType' object has no attribute 'select'")
            /\ pc' = "done"
            /\ UNCHANGED <<change_threshold, flood_by_change, calls>>
       ELSE /\ IF "change_histogram" \in outage
               THEN flood_by_change' = Failed("change_histogram")
                    /\ UNCHANGED change_threshold
               ELSE LET change_index == img_subtract(peek_image, pre_image)
                        det == otsu_change_detection(change_index)
                    IN  change_threshold' = det.threshold
                        /\ flood_by_change' = det.flood_mask
            /\ calls' = calls \cup {"change_histogram"}
            /\ pc' = "water"
            /\ UNCHANGED result
    /\ UNCHANGED <<otsu_vars, dialogue_vars>>
    /\ UNCHANGED <<op, pre_date, peek_date, days_range, obs_phase, scene, region, outage,
                   pre_window, peek_window, pre_image, peek_image, water_threshold,
                   peek_water, permanent_water, flood_area>>

\* peek_water = _otsu_water_detection(peek_image, region)
OtsuWaterDetection ==
    /\ pc = "water"
    /\ IF "water_histogram" \in outage
       THEN peek_water' = Failed("water_histogram") /\ UNCHANGED water_threshold
       ELSE LET det == otsu_water_detection(peek_image)
            IN  water_threshold' = det.threshold /\ peek_water' = det.water_mask
    /\ calls' = calls \cup {"water_histogram"}
    /\ pc' = "fuse"
    /\ UNCHANGED <<otsu_vars, dialogue_vars>>
    /\ UNCHANGED <<op, pre_date, peek_date, days_range, obs_phase, scene, region, outage,
                   pre_window, peek_window, pre_image, peek_image, change_threshold,
                   flood_by_change, permanent_water, flood_area, result>>

\* permanent_water = jrc...gte(95); flood_area = (change Or water) And Not permanent
FuseFloodMask ==
    /\ pc = "fuse"
    /\ permanent_water' = permanent_water_of(scene)
    /\ flood_area' =
         IF flood_by_change.kind = "Failed" THEN flood_by_change
         ELSE IF peek_water.kind = "Failed" THEN peek_water
         ELSE IF op = "bounds"
              THEN fuse_by_bounds(flood_by_change, peek_water, permanent_water')
         ELSE IF op = "geojson"
              THEN fuse_by_geojson(flood_by_change, peek_water, permanent_water')
         ELSE fuse_impact(flood_by_change, peek_water, permanent_water')
    /\ pc' = "stats"
    /\ UNCHANGED <<otsu_vars, dialogue_vars>>
    /\ UNCHANGED <<op, pre_date, peek_date, days_range, obs_phase, scene, region, outage, calls,
                   pre_window, peek_window, pre_image, peek_image, change_threshold,
                   water_threshold, flood_by_change, peek_water, result>>

\* map_id = flood_map.getMapId(viz_params) raises: the request itself fails,
\* or the backend evaluates the failing query of the mask while it builds the map
MapIdFails ==
    /\ pc = "stats"
    /\ op \in {"bounds", "geojson"}
    /\ "map_id" \in outage \/ flood_area.kind = "Failed"
    /\ result' = except_result(op, str_e(IF "map_id" \in outage THEN "map_id"
                                          ELSE flood_area.query))
    /\ calls' = calls \cup {"map_id"}
    /\ pc' = "done"
    /\ UNCHANGED <<otsu_vars, dialogue_vars>>
    /\ UNCHANGED <<op, pre_date, peek_date, days_range, obs_phase, scene, region, outage,
                   pre_window, peek_window, pre_image, peek_image, change_threshold,
                   water_threshold, flood_by_change, peek_water, permanent_water,
                   flood_area>>

\* tile_url; stats = _calculate_flood_stats(flood_area, region); return {...}.
\* The map is built without evaluation of the mask, so a failing query of the
\* mask shows in the statistics only.
ReturnDetection ==
    /\ pc = "stats"
    /\ op \in {"bounds", "geojson"}
    /\ "map_id" \notin outage
    /\ result' = [kind |-> "flood-change-detection", tile_url |-> "tile_url",
                  pre_date |-> pre_date, peek_date |-> peek_date,
                  stats |-> calculate_flood_stats(flood_area, region, "stats" \in outage)]
    /\ calls' = calls \cup {"map_id", "stats"}
    /\ pc' = "done"
    /\ UNCHANGED <<otsu_vars, dialogue_vars>>
    /\ UNCHANGED <<op, pre_date, peek_date, days_range, obs_phase, scene, region, outage,
                   pre_window, peek_window, pre_image, peek_image, change_threshold,
                   water_threshold, flood_by_change, peek_water, permanent_water,
                   flood_area>>

\* assessment = self.get_flood_impact_assessment(flood_mask, ...); return assessment
ReturnAssessment ==
    /\ pc = "stats"
    /\ op = "impact"
    /\ result' = get_flood_impact_assessment(flood_area, region, pre_date, peek_date,
                                              outage)
    /\ calls' = calls \cup (IF area_raises(flood_area, outage) THEN {"area"}
                            ELSE {"area", "population", "landcover", "urban", "layers"})
    /\ pc' = "done"
    /\ UNCHANGED <<otsu_vars, dialogue_vars>>
    /\ UNCHANGED <<op, pre_date, peek_date, days_range, obs_phase, scene, region, outage,
                   pre_window, peek_window, pre_image, peek_image, change_threshold,
                   water_threshold, flood_by_change, peek_water, permanent_water,
                   flood_area>>

Next ==
    \/ RegionBoundsFails
    \/ GetPreComposite
    \/ GetPeekComposite
    \/ InsufficientImagery
    \/ OtsuChangeDetection
    \/ OtsuWaterDetection
    \/ FuseFloodMask
    \/ MapIdFails
    \/ ReturnDetection
    \/ ReturnAssessment

Spec == Init /\ [][Next]_vars

-----------------------------------------------------------------------------
(* get_flood_impact_assessment called on its own: flood masks of up to      *)
(* MaxFlooded columns in the first one or two rows, regions that end at a  *)
(* boundary through or along a column, target years around the latest      *)
(* population vintage.                                                     *)

\* the first cols columns of the first rows rows are flooded; with a hole the
\* second pixel is masked
FloodMask(cols, rows, hole) ==
    Image([p \in Pixels |-> IF Row(p) <= rows /\ Col(p) <= cols THEN 1 ELSE 0],
          [p \in Pixels |-> ~(hole /\ p = 2)])

\* the region west of a boundary: columns before c inside, column c covered
\* in half (h = 1) or inside (h = 2)
Cut(c, h) ==
    [p \in Pixels |-> IF Col(p) < c THEN 2 ELSE IF Col(p) = c THEN h ELSE 0]

Regions == {FullRegion} \cup {Cut(c, h) : c \in 1..MaxCut, h \in {1, 2}}

\* peek_date strings; None is the empty string
TargetDates ==
    {[y |-> yr, m |-> 3, d |-> 1] :
        yr \in (WorldPopLatestYear - YearSpan)..(WorldPopLatestYear + YearSpan)}
    \cup {None}

ImpactSteps == {"area", "population", "landcover", "urban", "layers"}

ImpactInit ==
    /\ DialogueIdle
    /\ OtsuIdle
    /\ op = "impact"
    /\ days_range = MaxRadius /\ obs_phase = 0
    /\ scene = DefaultScene
    /\ pre_window = None /\ peek_window = None
    /\ pre_image = None /\ peek_image = None
    /\ change_threshold = <<0, 1>> /\ water_threshold = <<0, 1>>
    /\ flood_by_change = None /\ peek_water = None
    /\ permanent_water = None
    /\ pre_date = strftime(FloodDay - 1)
    /\ pc = "area"
    /\ result = None
    /\ calls = {}
    /\ \/ /\ flood_area \in {FloodMask(n, r, h) :
                                n \in 0..MaxFlooded, r \in {1, 2}, h \in BOOLEAN}
          /\ region \in Regions
          /\ peek_date \in TargetDates
          /\ outage = {}
       \/ /\ flood_area = FloodMask(MaxFlooded, 2, FALSE)
          /\ region = FullRegion
          /\ peek_date = FloodDate
          /\ outage \in {o \in SUBSET ImpactSteps :
                            Cardinality(o) >= 1 /\ Cardinality(o) <= MaxOutages}

\* step 1: the flood area; an exception leaves the method through its except clause
AssessArea ==
    /\ pc = "area"
    /\ IF area_raises(flood_area, outage)
       THEN /\ result' = assessment_error(area_exception(flood_area, outage))
            /\ pc' = "done"
       ELSE /\ result' = Put(new_results(pre_date, peek_date), "flood_area",
                             assess_flood_area(flood_area, region))
            /\ pc' = "population"
    /\ calls' = calls \cup {"area"}
    /\ UNCHANGED <<otsu_vars, dialogue_vars>>
    /\ UNCHANGED <<op, pre_date, peek_date, days_range, obs_phase, scene, region, outage,
                   pre_window, peek_window, pre_image, peek_image, change_threshold,
                   water_threshold, flood_by_change, peek_water, permanent_water,
                   flood_area>>

\* step 2: results["population"] = self._assess_population_impact(...)
AssessPopulation ==
    /\ pc = "population"
    /\ result' = Put(result, "population",
                     assess_population_impact(flood_area, region, peek_date,
                                              "population" \in outage))
    /\ calls' = calls \cup {"population"}
    /\ pc' = "landcover"
    /\ UNCHANGED <<otsu_vars, dialogue_vars>>
    /\ UNCHANGED <<op, pre_date, peek_date, days_range, obs_phase, scene, region, outage,
                   pre_window, peek_window, pre_image, peek_image, change_threshold,
                   water_threshold, flood_by_change, peek_water, permanent_water,
                   flood_area>>

\* step 3: results["landcover"] = self._assess_landcover_impact(...)
AssessLandcover ==
    /\ pc = "landcover"
    /\ result' = Put(result, "landcover",
                     assess_landcover_impact(flood_area, region, "landcover" \in outage))
    /\ calls' = calls \cup {"landcover"}
    /\ pc' = "urban"
    /\ UNCHANGED <<otsu_vars, dialogue_vars>>
    /\ UNCHANGED <<op, pre_date, peek_date, days_range, obs_phase, scene, region, outage,
                   pre_window, peek_window, pre_image, peek_image, change_threshold,
                   water_threshold, flood_by_change, peek_water, permanent_water,
                   flood_area>>

\* step 4: results["urban"] = self._assess_urban_impact(...)
AssessUrban ==
    /\ pc = "urban"
    /\ result' = Put(result, "urban",
                     assess_urban_impact(flood_area, region, "urban" \in outage))
    /\ calls' = calls \cup {"urban"}
    /\ pc' = "layers"
    /\ UNCHANGED <<otsu_vars, dialogue_vars>>
    /\ UNCHANGED <<op, pre_date, peek_date, days_range, obs_phase, scene, region, outage,
                   pre_window, peek_window, pre_image, peek_image, change_threshold,
                   water_threshold, flood_by_change, peek_water, permanent_water,
                   flood_area>>

\* step 5: results["layers"] = self._generate_impact_layers(...); return results
GenerateLayers ==
    /\ pc = "layers"
    /\ result' = Put(result, "layers",
                     generate_impact_layers(flood_area, region, "layers" \in outage))
    /\ calls' = calls \cup {"layers"}
    /\ pc' = "done"
    /\ UNCHANGED <<otsu_vars, dialogue_vars>>
    /\ UNCHANGED <<op, pre_date, peek_date, days_range, obs_phase, scene, region, outage,
                   pre_window, peek_window, pre_image, peek_image, change_threshold,
                   water_threshold, flood_by_change, peek_water, permanent_water,
                   flood_area>>

ImpactNext ==
    \/ AssessArea
    \/ AssessPopulation
    \/ AssessLandcover
    \/ AssessUrban
    \/ GenerateLayers

SpecImpact == ImpactInit /\ [][ImpactNext]_vars

-----------------------------------------------------------------------------
(* _otsu_change_detection called on its own, on pairs of composites: the    *)
(* "before" composite is land at -10 dB, the "during" composite differs     *)
(* from it by d1 dB in the first a columns, by d2 dB in the next column     *)
(* and nowhere else.                                                       *)

CompositePair(a, d1, d2) ==
    [pre |-> Image([p \in Pixels |-> -10], [p \in Pixels |-> TRUE]),
     peek |-> Image([p \in Pixels |->
                        IF Col(p) <= a THEN -10 + d1
                        ELSE IF Col(p) = a + 1 THEN -10 + d2
                        ELSE -10],
                    [p \in Pixels |-> TRUE])]

CompositePairs ==
    {CompositePair(a, d1, d2) :
        a \in 0..MaxPatch, d1 \in (0 - MaxShift)..MaxShift, d2 \in (0 - MaxShift)..MaxShift}

ChangeInit ==
    /\ DialogueIdle
    /\ OtsuIdle
    /\ op = "change"
    /\ pre_date = strftime(FloodDay - 1) /\ peek_date = FloodDate
    /\ days_range = MaxRadius /\ obs_phase = 0
    /\ scene = DefaultScene
    /\ pre_window = None /\ peek_window = None
    /\ change_threshold = <<0, 1>> /\ water_threshold = <<0, 1>>
    /\ flood_by_change = None /\ peek_water = None
    /\ permanent_water = None /\ flood_area = None
    /\ result = None
    /\ region = FullRegion
    /\ outage = {} /\ calls = {}
    /\ pc = "change"
    /\ \E pair \in CompositePairs :
         /\ pre_image = pair.pre
         /\ peek_image = pair.peek

\* change_index = vv_peek.subtract(vv_pre); _otsu_change_detection(change_index, region)
DetectChange ==
    /\ pc = "change"
    /\ LET detection == otsu_change_detection(img_subtract(peek_image, pre_image))
       IN  /\ change_threshold' = detection.threshold
           /\ flood_by_change' = detection.flood_mask
    /\ calls' = calls \cup {"change_histogram"}
    /\ pc' = "done"
    /\ UNCHANGED <<otsu_vars, dialogue_vars>>
    /\ UNCHANGED <<op, pre_date, peek_date, days_range, obs_phase, scene, pre_window,
                   peek_window, pre_image, peek_image, water_threshold, peek_water,
                   permanent_water, flood_area, result, region, outage>>

ChangeNext == DetectChange

SpecChange == ChangeInit /\ [][ChangeNext]_vars


-----------------------------------------------------------------------------
(* Runs of the dialogue graph.  A run starts with a message of the user     *)
(* (also while the thread waits at the interrupt: the waiting node is       *)
(* dropped and the graph starts at its entry point again) or, at the        *)
(* waiting node, with the user's reply to the interrupt; the nodes of the   *)
(* threads interleave.                                                      *)

\* what the model can answer: no json block, a broken one, the complete
\* information of the first event, that of the second event without its
\* location, or the first event with an empty date
InfoOf(e, fields) == [f \in fields |-> e]

ContentsOfModel ==
    {Content("answer", "none", EmptyDict),
     Content("answer", "broken", EmptyDict),
     Content("answer", "json", InfoOf("e1", EventFields)),
     Content("answer", "json", InfoOf("e2", EventFields \ {"location"})),
     Content("answer", "json", [InfoOf("e1", EventFields) EXCEPT !["pre_date"] = ""])}

\* what the user can reply to the interrupt
Replies ==
    {Reply("str", text, EmptyDict) :
        text \in {"", "ok", "{}", "{\"cancelled\": true}", "{\"event\": \"edited\"}",
                  "null", "5"}}
    \cup {Reply("dict", "", d) :
            d \in {EmptyDict,
                   [k \in {"cancelled"} |-> TRUE],
                   [k \in {"confirmed"} |-> TRUE],
                   [k \in {"event", "location"} |-> "edited"]}}
    \cup {Reply("other", "", EmptyDict)}

DialogueInit ==
    /\ OtsuIdle
    /\ PipeIdle
    /\ DialogueIdle

\* the node a thread is at executes and the thread moves on
Step(t, executed, goto, update) ==
    /\ thread_state' = [thread_state EXCEPT ![t] = Update(@, update)]
    /\ node' = [node EXCEPT ![t] = goto]
    /\ path' = [path EXCEPT ![t] = Append(@, executed)]

\* the user sends a message on thread t
NewMessage ==
    \E t \in Threads :
        /\ node[t] \in {"idle", "__end__", "interrupted"}
        /\ served < MaxMessages
        /\ served' = served + 1
        /\ thread_state' = [thread_state EXCEPT ![t] = Update(@, [messages |-> HumanMessage])]
        /\ node' = [node EXCEPT ![t] = "entry_node"]
        /\ path' = [path EXCEPT ![t] = <<>>]
        /\ resume' = [resume EXCEPT ![t] = NoReply]
        /\ UNCHANGED <<locals, pending_search_sources, pending_search_contents>>
        /\ UNCHANGED <<otsu_vars, pipe_vars>>

EntryNode ==
    \E t \in Threads :
        /\ node[t] = "entry_node"
        /\ LET command == entry_node(thread_state[t])
           IN  Step(t, "entry_node", command.goto, command.update)
        /\ UNCHANGED <<resume, locals, pending_search_sources, pending_search_contents,
                       served>>
        /\ UNCHANGED <<otsu_vars, pipe_vars>>

\* the model answers with a call of search_flood_event or with a response
ChatNode ==
    \E t \in Threads :
        /\ node[t] = "chat_node"
        /\ \E response \in
                {Message("ai", Content("", "none", EmptyDict), <<query>>) :
                    query \in IF ToolCallsIn(path[t]) < MaxToolCalls THEN Events ELSE {}}
                \cup {Message("ai", content, <<>>) : content \in ContentsOfModel} :
             LET command == chat_node(thread_state[t], response)
             IN  Step(t, "chat_node", command.goto, command.update)
        /\ UNCHANGED <<resume, locals, pending_search_sources, pending_search_contents,
                       served>>
        /\ UNCHANGED <<otsu_vars, pipe_vars>>

\* ToolNode runs search_flood_event(query): the globals take the results of
\* this search, or the empty list when the search raises
ToolNode ==
    \E t \in Threads :
        /\ node[t] = "tool_node"
        /\ LET query == thread_state[t].messages.last.tool_calls[1]
           IN  /\ \E search_fails \in BOOLEAN :
                    /\ pending_search_sources' =
                           IF search_fails THEN EmptyList ELSE sources_of(t, query)
                    /\ pending_search_contents' =
                           IF search_fails THEN EmptyList ELSE contents_of(t, query)
               /\ Step(t, "tool_node", "chat_node", [messages |-> ToolMessage(query)])
        /\ UNCHANGED <<resume, locals, served>>
        /\ UNCHANGED <<otsu_vars, pipe_vars>>

ExtractionNode ==
    \E t \in Threads :
        /\ node[t] = "extraction_node"
        /\ LET command == extraction_node(thread_state[t])
           IN  Step(t, "extraction_node", command.goto, command.update)
        /\ UNCHANGED <<resume, locals, pending_search_sources, pending_search_contents,
                       served>>
        /\ UNCHANGED <<otsu_vars, pipe_vars>>

\* confirmation_node: without a reply interrupt() stops the run; with one the
\* node cancels, confirms, or raises and leaves the thread at the interrupt
ConfirmationNode ==
    \E t \in Threads :
        /\ node[t] = "confirmation_node"
        /\ IF resume[t] = NoReply
           THEN /\ Step(t, "confirmation_node", "interrupted", EmptyDict)
                /\ UNCHANGED resume
           ELSE LET command == confirmation_node(thread_state[t], resume[t])
                IN  /\ Step(t, "confirmation_node",
                            IF command.goto = "raise" THEN "interrupted" ELSE command.goto,
                            command.update)
                    /\ resume' = IF command.goto = "processing_node" THEN resume
                                 ELSE [resume EXCEPT ![t] = NoReply]
        /\ UNCHANGED <<locals, pending_search_sources, pending_search_contents, served>>
        /\ UNCHANGED <<otsu_vars, pipe_vars>>

\* the user replies to the interrupt: Command(resume=reply)
Resume ==
    \E t \in Threads :
        /\ node[t] = "interrupted"
        /\ \E reply \in Replies : resume' = [resume EXCEPT ![t] = reply]
        /\ node' = [node EXCEPT ![t] = "confirmation_node"]
        /\ path' = [path EXCEPT ![t] = <<>>]
        /\ UNCHANGED <<thread_state, locals, pending_search_sources,
                       pending_search_contents, served>>
        /\ UNCHANGED <<otsu_vars, pipe_vars>>

\* processing_node up to the report prompt: geocoding, and the search
\* contents read from the global
ProcessingNode ==
    \E t \in Threads :
        /\ node[t] = "processing_node"
        /\ \E found \in BOOLEAN :
             locals' = [locals EXCEPT ![t] =
                           [geo_data |-> get_location_coordinates(thread_state[t].location,
                                                                  found),
                            search_contents_text |->
                                search_contents_text_of(pending_search_contents)]]
        /\ node' = [node EXCEPT ![t] = "processing_node_report"]
        /\ path' = [path EXCEPT ![t] = Append(@, "processing_node")]
        /\ UNCHANGED <<thread_state, resume, pending_search_sources,
                       pending_search_contents, served>>
        /\ UNCHANGED <<otsu_vars, pipe_vars>>

\* processing_node from the report on: the model writes the report or fails,
\* the sources are read from the global, the state is updated
ProcessingReport ==
    \E t \in Threads :
        /\ node[t] = "processing_node_report"
        /\ \E model_fails \in BOOLEAN :
             thread_state' =
                 [thread_state EXCEPT ![t] =
                     Update(@, processing_update(@, locals[t].geo_data,
                                                 locals[t].search_contents_text,
                                                 model_fails, pending_search_sources))]
        /\ node' = [node EXCEPT ![t] = "__end__"]
        /\ locals' = [locals EXCEPT ![t] = NoLocals]
        /\ resume' = [resume EXCEPT ![t] = NoReply]
        /\ UNCHANGED <<path, pending_search_sources, pending_search_contents, served>>
        /\ UNCHANGED <<otsu_vars, pipe_vars>>

DialogueNext ==
    \/ NewMessage
    \/ EntryNode
    \/ ChatNode
    \/ ToolNode
    \/ ExtractionNode
    \/ ConfirmationNode
    \/ Resume
    \/ ProcessingNode
    \/ ProcessingReport

SpecDialogue == DialogueInit /\ [][DialogueNext]_vars

-----------------------------------------------------------------------------
(* Histograms the solver is run on: 1..MaxBuckets buckets, counts in        *)
(* 0..MaxCount, bucket means ascending in steps of one bucket width with   *)
(* one optional gap of empty range.                                        *)

BucketMeans(n, gapAt, step) ==
    [k \in 1..n |->
        Num(WaterDefault + step * (k - 1) + (IF k > gapAt THEN GapWidth ELSE 0))]

Histograms ==
    UNION { { [histogram |-> c, bucketMeans |-> BucketMeans(n, g, st)] :
                c \in [1..n -> 0..MaxCount], g \in 1..n, st \in {1, 2} } :
            n \in 1..MaxBuckets }

OtsuInit ==
    /\ DialogueIdle
    /\ PipeIdle
    /\ solver \in {"water", "change"}
    /\ histogram \in Histograms
    /\ otsu_i = 1
    /\ otsu_state = initial_state(solver)
    /\ otsu_pc = "iterate"
    /\ otsu_result = <<0, 1>>

\* one element of the sequence is folded into the state
OtsuIterate ==
    /\ otsu_pc = "iterate"
    /\ otsu_i <= size_of(histogram)
    /\ otsu_state' =
           IF solver = "water"
           THEN otsu_iteration(otsu_i, otsu_state, counts_of(histogram),
                               means_of(histogram), total_of(histogram),
                               sum_all_of(histogram))
           ELSE change_otsu_iteration(otsu_i, otsu_state, counts_of(histogram),
                                      means_of(histogram), total_of(histogram),
                                      sum_all_of(histogram))
    /\ otsu_i' = otsu_i + 1
    /\ UNCHANGED <<solver, histogram, otsu_pc, otsu_result>>
    /\ UNCHANGED <<pipe_vars, dialogue_vars>>

\* ee.Dictionary(result).getNumber("best_threshold")
OtsuReturn ==
    /\ otsu_pc = "iterate"
    /\ otsu_i > size_of(histogram)
    /\ otsu_result' = otsu_state.best_threshold
    /\ otsu_pc' = "done"
    /\ UNCHANGED <<solver, histogram, otsu_i, otsu_state>>
    /\ UNCHANGED <<pipe_vars, dialogue_vars>>

OtsuNext == OtsuIterate \/ OtsuReturn

SpecOtsu == OtsuInit /\ [][OtsuNext]_vars

-----------------------------------------------------------------------------
(* Properties of the Otsu solver *)

OtsuDone == otsu_pc = "done"

\* the buckets that hold pixels
Populated(h) == {k \in 1..size_of(h) : h.histogram[k] > 0}

RECURSIVE SumTo(_, _)
SumTo(f, k) == IF k = 0 THEN <<0, 1>> ELSE ee_add(SumTo(f, k - 1), f[k])

\* brute force: the between-class variance of the split "buckets 1..k against
\* the rest", from the sums of each side, 0 for a degenerate split
SweepVar(h, k) ==
    LET n == size_of(h)
        wt == [i \in 1..n |-> Num(h.histogram[i])]
        ws == [i \in 1..n |-> ee_multiply(Num(h.histogram[i]), h.bucketMeans[i])]
        W0 == SumTo(wt, k)
        W1 == ee_subtract(SumTo(wt, n), W0)
        S0 == SumTo(ws, k)
        S1 == ee_subtract(SumTo(ws, n), S0)
    IN  IF W0[1] = 0 \/ W1[1] = 0 THEN <<0, 1>>
        ELSE LET d == ee_subtract(ee_divide(S0, W0), ee_divide(S1, W1))
             IN  ee_multiply(ee_multiply(W0, W1), ee_multiply(d, d))

HasSplit(h) == \E k \in 1..size_of(h) : SweepVar(h, k)[1] > 0

MaximalSplit(h, k) == \A j \in 1..size_of(h) : ~RLess(SweepVar(h, k), SweepVar(h, j))

\* C3: when some split has both classes populated and positive between-class
\* variance, the returned threshold is the mean of a bucket k whose
\* between-class variance is the maximum of the brute-force sweep.
C3_OtsuMaximisesVariance ==
    (OtsuDone /\ HasSplit(histogram)) =>
        \E k \in 1..size_of(histogram) :
            /\ otsu_result = histogram.bucketMeans[k]
            /\ MaximalSplit(histogram, k)

\* a finished run on three populated buckets whose best split is not the first
C3_Witness ==
    /\ OtsuDone
    /\ Cardinality(Populated(histogram)) >= 3
    /\ \E k \in 2..size_of(histogram) :
         /\ otsu_result = histogram.bucketMeans[k]
         /\ \A j \in 1..size_of(histogram) :
              j # k => RLess(SweepVar(histogram, j), SweepVar(histogram, k))

\* counts rise to one peak and fall again over buckets a..b, none empty
Unimodal(c, a, b) ==
    /\ \A i \in a..b : c[i] > 0
    /\ \E p \in a..b :
         /\ \A i \in a..(p - 1) : c[i] <= c[i + 1]
         /\ \A i \in p..(b - 1) : c[i] >= c[i + 1]

\* buckets 1..j and j+1..n are two unimodal clusters, GapWidth or more apart
TwoClusters(h, j) ==
    /\ 1 <= j /\ j < size_of(h)
    /\ Unimodal(h.histogram, 1, j)
    /\ Unimodal(h.histogram, j + 1, size_of(h))
    /\ ~RLess(ee_subtract(h.bucketMeans[j + 1], h.bucketMeans[j]), Num(GapWidth))

ClusterMean(h, a, b) ==
    LET n == size_of(h)
        wt == [i \in 1..n |-> Num(h.histogram[i])]
        ws == [i \in 1..n |-> ee_multiply(Num(h.histogram[i]), h.bucketMeans[i])]
    IN  ee_divide(ee_subtract(SumTo(ws, b), SumTo(ws, a - 1)),
                  ee_subtract(SumTo(wt, b), SumTo(wt, a - 1)))

\* C4: for two well-separated unimodal clusters the returned threshold lies
\* strictly between the mean of the lower and the mean of the upper cluster.
C4_ThresholdStrictlyBetweenClusterMeans ==
    \A j \in 1..MaxBuckets :
        (OtsuDone /\ TwoClusters(histogram, j)) =>
            /\ RLess(ClusterMean(histogram, 1, j), otsu_result)
            /\ RLess(otsu_result, ClusterMean(histogram, j + 1, size_of(histogram)))

\* C5: with fewer than two populated buckets the solver returns the threshold
\* it was started with: -20 dB for water detection, -3 dB for change detection.
C5_DegenerateHistogramKeepsInitialThreshold ==
    (OtsuDone /\ Cardinality(Populated(histogram)) < 2) =>
        otsu_result = Num(IF solver = "water" THEN WaterDefault ELSE ChangeDefault)

\* a finished run on a histogram of one populated bucket
C5_Witness ==
    /\ OtsuDone
    /\ size_of(histogram) = 1
    /\ Cardinality(Populated(histogram)) = 1

-----------------------------------------------------------------------------
(* Properties of the pipeline *)

Fused == pc \in {"stats", "done"} /\ flood_area.kind = "Image"

InMask(img, p) == img.mask[p] /\ img.val[p] # 0

Bit(b) == IF b THEN 1 ELSE 0

Uniform(v) == Image([p \in Pixels |-> v], [p \in Pixels |-> TRUE])

\* the (changeMask, duringWaterMask, permanentWaterMask) values found at the
\* pixels of the current run where all three are defined
CombinationsSeen ==
    {<<flood_by_change.val[p], peek_water.val[p], permanent_water.val[p]>> :
        p \in {q \in Pixels : flood_by_change.mask[q] /\ peek_water.mask[q]
                               /\ permanent_water.mask[q]}}

\* C1: at each of the three places the flood mask is built, for each pixel and
\* each of the 8 combinations of (changeMask, duringWaterMask,
\* permanentWaterMask), the fused value is (change OR water) AND NOT
\* permanent, so the three pipelines fuse the same inputs to the same mask.
C1_FusionTruthTable ==
    Fused =>
         /\ \A c \in {0, 1}, w \in {0, 1}, pw \in {0, 1} :
              LET expected == Uniform(Bit((c = 1 \/ w = 1) /\ pw = 0))
              IN  /\ fuse_by_bounds(Uniform(c), Uniform(w), Uniform(pw)) = expected
                  /\ fuse_by_geojson(Uniform(c), Uniform(w), Uniform(pw)) = expected
                  /\ fuse_impact(Uniform(c), Uniform(w), Uniform(pw)) = expected
         /\ \A p \in Pixels :
              (flood_by_change.mask[p] /\ peek_water.mask[p] /\ permanent_water.mask[p]) =>
                  /\ flood_area.mask[p]
                  /\ flood_area.val[p] =
                       Bit((flood_by_change.val[p] = 1 \/ peek_water.val[p] = 1)
                           /\ permanent_water.val[p] = 0)
         /\ fuse_by_bounds(flood_by_change, peek_water, permanent_water) = flood_area
         /\ fuse_by_geojson(flood_by_change, peek_water, permanent_water) = flood_area
         /\ fuse_impact(flood_by_change, peek_water, permanent_water) = flood_area

\* the impact pipeline has fused a scene that shows four of the combinations,
\* among them change-only and water-only pixels, permanent and not
C1_Witness ==
    /\ Fused /\ op = "impact"
    /\ {<<1, 0, 1>>, <<0, 1, 1>>, <<0, 1, 0>>, <<0, 0, 0>>} \subseteq CombinationsSeen

\* C2: a pixel of permanent water (occurrence >= 95) is never in the fused
\* flood mask, whatever the change mask and the water mask say there.
C2_PermanentWaterExcluded ==
    Fused => \A p \in Pixels : Occurrence(scene, p) >= 95 => ~InMask(flood_area, p)

\* a pixel with occurrence exactly 95 that the change detector flagged
C2_Witness ==
    /\ Fused
    /\ \E p \in Pixels : Occurrence(scene, p) = 95 /\ InMask(flood_by_change, p)

ChangeDetected == pc \in {"water", "fuse", "stats", "done"} /\ flood_by_change.kind = "Image"
WaterDetected == pc \in {"fuse", "stats", "done"} /\ peek_water.kind = "Image"

ChangeAt(p) == peek_image.val[p] - pre_image.val[p]

\* C6: the water mask holds a pixel exactly when its VV value is strictly
\* below the threshold solved on the VV histogram, the change mask exactly when
\* its change value (during VV minus before VV) is strictly below the
\* threshold solved on the change histogram; a pixel at the threshold is in
\* neither mask.
C6_MaskIsStrictlyBelowThreshold ==
    /\ WaterDetected =>
         /\ water_threshold \in {Num(peek_image.val[p]) : p \in Pixels} \cup {Num(WaterDefault)}
         /\ \A p \in Pixels :
              /\ InMask(peek_water, p) <=> RLess(Num(peek_image.val[p]), water_threshold)
              /\ Num(peek_image.val[p]) = water_threshold => ~InMask(peek_water, p)
    /\ ChangeDetected =>
         /\ change_threshold \in {Num(ChangeAt(p)) : p \in Pixels} \cup {Num(ChangeDefault)}
         /\ \A p \in Pixels :
              /\ InMask(flood_by_change, p) <=> RLess(Num(ChangeAt(p)), change_threshold)
              /\ Num(ChangeAt(p)) = change_threshold => ~InMask(flood_by_change, p)

\* both detectors ran, each mask is non-empty and each has pixels exactly at
\* its threshold
C6_Witness ==
    /\ WaterDetected /\ ChangeDetected
    /\ \E p \in Pixels : InMask(peek_water, p)
    /\ \E p \in Pixels : InMask(flood_by_change, p)
    /\ \E p \in Pixels : Num(peek_image.val[p]) = water_threshold
    /\ \E p \in Pixels : Num(ChangeAt(p)) = change_threshold

\* the end-to-end scenario: a uniform "before" composite, the block drops by
\* 8 dB in the "during" composite and nothing else changes; the centre of the
\* block is permanent water, no other pixel is, and the JRC layer has a value
\* everywhere
BlockScenario ==
    /\ outage = {}
    /\ pre_image.kind = "Image" /\ peek_image.kind = "Image"
    /\ \A p, q \in Pixels : pre_image.val[p] = pre_image.val[q]
    /\ \A p \in Pixels : ChangeAt(p) = IF InBlock(p) THEN -8 ELSE 0
    /\ \A p \in Pixels : Occurrence(scene, p) >= 0
    /\ \A p \in Pixels : Occurrence(scene, p) >= 95 <=> Tagged(p)

\* C7: in the end-to-end scenario the fused flood mask is exactly the block
\* without its permanent-water pixel, and the reported flood area is
\* 8 pixel areas (the report is in hundredths of a km2, a pixel area in m2).
C7_BlockScenarioFloodMaskAndArea ==
    (pc = "done" /\ result.kind = "flood-change-detection" /\ BlockScenario) =>
        /\ \A p \in Pixels : InMask(flood_area, p) <=> (InBlock(p) /\ ~Tagged(p))
        /\ result.stats.flood_area_km2 * 10000 =
             (BlockSize * BlockSize - 1) * StatsScale * StatsScale

WindowsBuilt ==
    /\ pc \notin {"idle", "pre", "peek"}
    /\ pre_window.kind = "Window" /\ peek_window.kind = "Window"

AllDays == (FloodDay - 3 * (DateSpan + MaxRadius))..(FloodDay + 3 * (DateSpan + MaxRadius))

\* the days on which an acquisition would qualify for a window
DaysOf(w) == filterDate(AllDays, w.start_date, w.end_date)

\* C8: in every run, whatever pre_date, peek_date and days_range are, the
\* "before" window of pre_date and the "after" window of peek_date have no
\* date in common.
C8_RunWindowsDisjoint ==
    WindowsBuilt => DaysOf(pre_window) \cap DaysOf(peek_window) = {}

\* C9: the "before" and the "after" window of one target date do not overlap:
\* the end of "before" is the start of "after", the target date; an
\* acquisition on the target date qualifies for "after" and not for "before".
C9_SameTargetWindows ==
    (WindowsBuilt /\ pre_date = peek_date) =>
        /\ pre_window.end_date = pre_date
        /\ peek_window.start_date = pre_date
        /\ DaysOf(pre_window) \cap DaysOf(peek_window) = {}
        /\ pre_window.collection \cap peek_window.collection = {}
        /\ strptime(pre_date) \notin pre_window.collection
        /\ strptime(pre_date) \notin DaysOf(pre_window)
        /\ strptime(pre_date) \in DaysOf(peek_window)
        /\ strptime(pre_date) \in S1_GRD(obs_phase) =>
               strptime(pre_date) \in peek_window.collection

\* both windows of one target date, with an acquisition on that date and
\* another one before it in the "before" window
C9_Witness ==
    /\ WindowsBuilt /\ pre_date = peek_date
    /\ strptime(pre_date) \in S1_GRD(obs_phase)
    /\ pre_window.collection # {}

PeekBuilt == pc \notin {"idle", "pre", "peek"} /\ peek_window.kind = "Window"

\* C10 as stated: with direction "after" an acquisition qualifies exactly when
\* targetDate <= d <= targetDate + dayRadius, the last day included.
C10_AfterWindowClosed ==
    PeekBuilt =>
        peek_window.collection =
            {t \in S1_GRD(obs_phase) :
                strptime(peek_date) <= t /\ t <= strptime(peek_date) + days_range}

\* C10 amended: with direction "after" an acquisition qualifies exactly when
\* targetDate <= d < targetDate + dayRadius; an acquisition on the day
\* targetDate + dayRadius is not included.
C10_AfterWindowHalfOpen ==
    PeekBuilt =>
        /\ peek_window.collection =
             {t \in S1_GRD(obs_phase) :
                 strptime(peek_date) <= t /\ t < strptime(peek_date) + days_range}
        /\ (strptime(peek_date) + days_range) \notin peek_window.collection

\* an "after" window was built, there are acquisitions on its first day and
\* on the day targetDate + dayRadius
C10_Witness ==
    /\ PeekBuilt
    /\ strptime(peek_date) \in peek_window.collection
    /\ (strptime(peek_date) + days_range) \in S1_GRD(obs_phase)

-----------------------------------------------------------------------------
(* Properties of the pipeline under missing imagery and backend failures *)

\* the window was built and no acquisition qualifies for it
ZeroObservations(w) == w.kind = "Window" /\ w.collection = {}

PreBuilt == pc \notin {"idle", "pre"}

\* C11: when the "before" window or the "during" window has no qualifying
\* observation, the composite builder returns None (Absent), the run goes
\* nowhere but to the cannot-proceed error result, and the change detector and
\* its histogram query are never invoked in it.
C11_AbsentShortCircuits ==
    /\ (PreBuilt /\ ZeroObservations(pre_window)) => pre_image = None
    /\ (PeekBuilt /\ ZeroObservations(peek_window)) => peek_image = None
    /\ (PeekBuilt /\ (ZeroObservations(pre_window) \/ ZeroObservations(peek_window))) =>
          /\ pc \in {"check", "done"}
          /\ "change_histogram" \notin calls
          /\ flood_by_change = None /\ flood_area = None
          /\ pc = "done" => result = insufficient_result(op)

\* a finished run whose "during" window held no acquisition while the "before"
\* composite was built
C11_Witness ==
    /\ pc = "done"
    /\ ZeroObservations(peek_window)
    /\ pre_image.kind = "Image"
    /\ result = insufficient_result(op)

\* the requests of this run that the backend failed on
FailedRequests == calls \cap outage

\* C12: a backend failure while a composite is built (every window holding
\* acquisitions) ends in an error result that is not the result of a run with
\* insufficient imagery.
C12_BackendFailureDistinctFromInsufficient ==
    (/\ pc = "done"
     /\ FailedRequests \cap {"pre_composite", "peek_composite"} # {}
     /\ ~ZeroObservations(pre_window) /\ ~ZeroObservations(peek_window)) =>
        /\ result.kind = "error"
        /\ result # insufficient_result(op)

\* C13: when a backend request of a finished run failed, the result is an
\* error and its message names a failed request; no run that lost a request
\* returns a success result (tile URL, statistics, assessment).
C13_BackendErrorsNotSwallowed ==
    (pc = "done" /\ FailedRequests # {}) =>
        /\ result.kind = "error"
        /\ result.error[Len(result.error)] \in FailedRequests

-----------------------------------------------------------------------------
(* Properties of the impact assessment *)

Assessed == pc = "done" /\ result.kind = "assessment"

\* the two parts a boundary at column c (through it for h = 1, behind it for
\* h = 2) splits a region into
West(g, c, h) == [p \in Pixels |-> IF g[p] < Cut(c, h)[p] THEN g[p] ELSE Cut(c, h)[p]]
East(g, c, h) == [p \in Pixels |-> g[p] - West(g, c, h)[p]]

AreaOver(g) == assess_flood_area(flood_area, g).value

Undisturbed(step) ==
    IF step = "area" THEN assess_flood_area(flood_area, region)
    ELSE IF step = "population"
         THEN assess_population_impact(flood_area, region, peek_date, FALSE)
    ELSE IF step = "landcover" THEN assess_landcover_impact(flood_area, region, FALSE)
    ELSE IF step = "urban" THEN assess_urban_impact(flood_area, region, FALSE)
    ELSE generate_impact_layers(flood_area, region, FALSE)

\* the key of results that holds the output of a sub-step
KeyOf(step) == IF step = "area" THEN "flood_area" ELSE step

\* C15: the five sub-steps are independent given the flood mask: in a
\* finished run every sub-step whose own requests did not fail has its output
\* in the result, equal to its output in a run without any failure.
C15_SubStepsIndependent ==
    pc = "done" =>
        \A step \in ImpactSteps \ outage :
            /\ KeyOf(step) \in DOMAIN result
            /\ result[KeyOf(step)] = Undisturbed(step)

\* the flooded area of a cover class inside the region, in half square metres
FloodedAreaOf(c) ==
    RangeSum([p \in Pixels |->
                 IF WorldCover(p) = c /\ flood_area.mask[p] /\ flood_area.val[p] = 1
                 THEN region[p] * ImpactScale * ImpactScale ELSE 0],
             1, GridN * GridN)

LandcoverAssessed == Assessed /\ "landcover" \notin outage

\* C16 as stated: a cover class is omitted from the breakdown exactly when its
\* flooded area is below 0.01 km2, and every class of at least 0.01 km2 is
\* listed with its area.
C16_OmittedExactlyBelowMinimum ==
    LandcoverAssessed =>
        \A c \in landcover_classes :
            /\ c \notin DOMAIN result.landcover.breakdown
                   <=> FloodedAreaOf(c) < 2 * MinAreaM2
            /\ FloodedAreaOf(c) >= 2 * MinAreaM2 =>
                   /\ c \in DOMAIN result.landcover.breakdown
                   /\ result.landcover.breakdown[c].area_km2
                          = round2(FloodedAreaOf(c), 2000000)

\* C16 amended: a cover class is omitted from the breakdown exactly when its
\* flooded area is not greater than 0.01 km2 (a class of exactly 0.01 km2 is
\* omitted), and every class of more than 0.01 km2 is listed with its area
\* rounded to two decimals.
C16_OmittedUnlessAboveMinimum ==
    LandcoverAssessed =>
        \A c \in landcover_classes :
            /\ c \notin DOMAIN result.landcover.breakdown
                   <=> FloodedAreaOf(c) <= 2 * MinAreaM2
            /\ FloodedAreaOf(c) > 2 * MinAreaM2 =>
                   /\ c \in DOMAIN result.landcover.breakdown
                   /\ result.landcover.breakdown[c].area_km2
                          = round2(FloodedAreaOf(c), 2000000)

\* a class of exactly 0.01 km2 and a class of half a pixel are omitted while a
\* larger class is listed
C16_Witness ==
    /\ LandcoverAssessed
    /\ \E c \in landcover_classes :
         /\ FloodedAreaOf(c) = 2 * MinAreaM2
         /\ c \notin DOMAIN result.landcover.breakdown
    /\ \E c \in landcover_classes :
         /\ FloodedAreaOf(c) > 2 * MinAreaM2
         /\ c \in DOMAIN result.landcover.breakdown

\* the year asked for, and the vintage the claim expects for it
TargetYear == IF peek_date = None THEN WorldPopLatestYear ELSE peek_date.y
ExpectedVintage ==
    IF TargetYear <= WorldPopLatestYear THEN TargetYear ELSE WorldPopLatestYear

PopulationAssessed == Assessed /\ "population" \notin outage

\* C17: the population statistic is computed against the raster of the target
\* year when that year is not later than 2020 and against the raster of 2020
\* when it is later, and the data-source tag names that same year.
C17_PopulationYearClamped ==
    PopulationAssessed =>
        /\ result.population.data_source = <<"WorldPop", ExpectedVintage>>
        /\ result.population.total
               = round0(RangeSum([p \in Pixels |-> region[p] * WorldPop(ExpectedVintage, p)],
                                 1, GridN * GridN), 2)
        /\ result.population.affected
               = round0(RangeSum([p \in Pixels |->
                                     IF flood_area.mask[p] /\ flood_area.val[p] = 1
                                     THEN region[p] * WorldPop(ExpectedVintage, p) ELSE 0],
                                 1, GridN * GridN), 2)

\* a target year later than the latest vintage, with people in the flooded area
C17_Witness ==
    /\ PopulationAssessed
    /\ TargetYear > WorldPopLatestYear
    /\ result.population.data_source = <<"WorldPop", WorldPopLatestYear>>
    /\ result.population.affected > 0

-----------------------------------------------------------------------------
(* Further properties of the Otsu solver *)

FirstMaximalSplit(h) ==
    CHOOSE k \in 1..size_of(h) :
        /\ MaximalSplit(h, k)
        /\ \A j \in 1..(k - 1) : ~MaximalSplit(h, j)

\* C19: when several splits attain the same maximum between-class variance the
\* solver returns the bucket mean of the first of them in ascending order.
C19_FirstMaximumWins ==
    (OtsuDone /\ HasSplit(histogram)) =>
        otsu_result = histogram.bucketMeans[FirstMaximalSplit(histogram)]

\* a finished run on a histogram where two splits with different bucket means
\* tie for the maximum
C19_Witness ==
    /\ OtsuDone
    /\ HasSplit(histogram)
    /\ \E j, k \in 1..size_of(histogram) :
         /\ j < k
         /\ MaximalSplit(histogram, j) /\ MaximalSplit(histogram, k)
         /\ otsu_result = histogram.bucketMeans[j]
         /\ histogram.bucketMeans[j] # histogram.bucketMeans[k]

\* the histogram with every count multiplied by c
Scaled(h, c) ==
    [histogram |-> [k \in DOMAIN h.histogram |-> c * h.histogram[k]],
     bucketMeans |-> h.bucketMeans]

Solve(kind, h) ==
    IF kind = "water" THEN compute_otsu_threshold(h) ELSE compute_change_otsu_threshold(h)

\* C20: multiplying every count of the histogram by a positive factor leaves
\* the returned threshold unchanged: every multiple of a histogram gives the
\* threshold of the histogram itself.
C20_ScaleInvariant ==
    OtsuDone =>
        \A c \in 1..MaxFactor :
            Solve(solver, Scaled(histogram, c)) = otsu_result

\* a finished run on a histogram with a valid split, whose multiples differ
\* from it
C20_Witness ==
    /\ OtsuDone
    /\ HasSplit(histogram)
    /\ Scaled(histogram, MaxFactor) # histogram
    /\ Solve(solver, Scaled(histogram, MaxFactor)) = otsu_result
    /\ otsu_result \notin {Num(WaterDefault), Num(ChangeDefault)}

-----------------------------------------------------------------------------
(* Further properties of the pipeline *)

\* the occurrence layer has no value at the pixel (water was never seen there)
NeverWater(p) == Occurrence(scene, p) < 0

\* the area the statistic reports for the pixels of a set, each inside the region
AreaOfPixels(S) == round2(2 * Cardinality(S) * StatsScale * StatsScale, 2000000)

\* C25: a pixel in the change mask or in the during-water mask at which the
\* occurrence layer has no value is in the fused flood mask, and the reported
\* flood area counts each such pixel.
C25_UnobservedPixelsStayFlooded ==
    Fused =>
        LET recovered == {p \in Pixels :
                             /\ NeverWater(p)
                             /\ InMask(flood_by_change, p) \/ InMask(peek_water, p)}
        IN  /\ \A p \in recovered : InMask(flood_area, p)
            /\ (pc = "done" /\ op # "impact" /\ outage = {}) =>
                   result.stats.flood_area_km2 >= AreaOfPixels(recovered)

\* the change index the change detector is given
ChangeIndex == img_subtract(peek_image, pre_image)

\* the bucket, counted from 1, of the histogram of img that holds pixel p
BucketOf(img, perDb, p) ==
    img.val[p] * perDb - SetMin({t[1] : t \in value_counts(img)}) * perDb + 1

\* the split the solver selected: the bucket whose mean it returned
SelectedSplit(hist, threshold) ==
    CHOOSE k \in 1..size_of(hist) : hist.bucketMeans[k] = threshold

\* with pixels in two buckets or more, the mask holds the pixels of the
\* buckets up to the selected split and no other
AgreesWithSplit(img, perDb, threshold, mask) ==
    LET hist == reduce_histogram(img, perDb)
    IN  Cardinality(value_counts(img)) >= 2 =>
            /\ \E k \in 1..size_of(hist) : hist.bucketMeans[k] = threshold
            /\ \A p \in Pixels :
                   img.mask[p] =>
                       (InMask(mask, p)
                            <=> BucketOf(img, perDb, p) <= SelectedSplit(hist, threshold))

\* C26: every pixel of a bucket of the low class at the selected split (the
\* buckets up to it, accumulated in w0) is in the detector's mask and every
\* pixel of a bucket above the split is outside it, for the water detector and
\* for the change detector.
C26_MaskAgreesWithSelectedSplit ==
    /\ WaterDetected =>
           AgreesWithSplit(peek_image, WaterBucketsPerDb, water_threshold, peek_water)
    /\ ChangeDetected =>
           AgreesWithSplit(ChangeIndex, ChangeBucketsPerDb, change_threshold, flood_by_change)

\* C27: every pixel in the change mask has a negative change index: the change
\* detector never flags a pixel whose backscatter rose or stayed the same.
C27_ChangeMaskOnlyWhereBackscatterDropped ==
    (op = "change" /\ pc = "done") =>
        \A p \in Pixels : InMask(flood_by_change, p) => ChangeAt(p) < 0

-----------------------------------------------------------------------------
(* Further properties of the impact assessment *)

\* affected never exceeds total, the percentage (in hundredths) lies in
\* 0..100 and is 0 for a total of 0
WithinTotal(affected, total, percentage) ==
    /\ 0 <= affected /\ affected <= total
    /\ 0 <= percentage /\ percentage <= 10000
    /\ total = 0 => percentage = 0

\* C30: for the population and the urban statistic the affected quantity
\* never exceeds the region total, the percentage lies between 0 and 100, and
\* for a region total of 0 the percentage is reported as 0.
C30_AffectedWithinTotal ==
    Assessed =>
        /\ "population" \notin outage =>
               WithinTotal(result.population.affected, result.population.total,
                           result.population.percentage)
        /\ "urban" \notin outage =>
               WithinTotal(result.urban.affected_area_km2, result.urban.total_area_km2,
                           result.urban.percentage)

\* an assessment over a region without built-up surface where part of the
\* population is flooded
C30_Witness ==
    /\ Assessed /\ outage = {}
    /\ result.urban.total_area_km2 = 0
    /\ result.urban.percentage = 0
    /\ result.population.affected > 0
    /\ result.population.affected < result.population.total
    /\ result.population.percentage > 0 /\ result.population.percentage < 10000

-----------------------------------------------------------------------------
(* Properties of the dialogue graph *)

Executed(t) == {path[t][i] : i \in 1..Len(path[t])}

StageOf(t) == get_stage(thread_state[t])

\* the replies that are a confirmation: a dictionary, or the text of one,
\* that is not empty and does not cancel
ConfirmingReplies ==
    {Reply("str", "{\"event\": \"edited\"}", EmptyDict),
     Reply("dict", "", [k \in {"confirmed"} |-> TRUE]),
     Reply("dict", "", [k \in {"event", "location"} |-> "edited"])}

\* C21: processing_node executes only after confirmation_node has received,
\* in that run, a non-empty confirmation that is not cancelled: a thread is at
\* processing_node only with such a reply, and wherever processing_node stands
\* in the nodes of a run, confirmation_node stands right before it.
C21_ProcessingOnlyAfterConfirmation ==
    \A t \in Threads :
        /\ node[t] \in {"processing_node", "processing_node_report"} =>
               /\ resume[t] \in ConfirmingReplies
               /\ Len(path[t]) >= 1
               /\ path[t][IF node[t] = "processing_node" THEN Len(path[t])
                          ELSE Len(path[t]) - 1] = "confirmation_node"
        /\ \A i \in 1..Len(path[t]) :
               path[t][i] = "processing_node" => (i > 1 /\ path[t][i - 1] = "confirmation_node")

\* a thread writes its report after the user confirmed with edited values
C21_Witness ==
    \E t \in Threads :
        /\ node[t] = "processing_node_report"
        /\ resume[t] = Reply("dict", "", [k \in {"event", "location"} |-> "edited"])
        /\ path[t] = <<"confirmation_node", "processing_node">>
        /\ thread_state[t].event = "edited"

\* a change of the stage of thread t in a step is an advance by one stage, the
\* reset by entry_node of a completed stage, or the reset by a cancellation
StageStep(t) ==
    LET before == get_stage(thread_state[t])
        after == get_stage(thread_state'[t])
    IN  before # after =>
            \/ <<before, after>> \in {<<"initial", "pending_confirmation">>,
                                      <<"pending_confirmation", "confirmed">>,
                                      <<"confirmed", "completed">>}
            \/ /\ after = "initial" /\ before = "completed"
               /\ node[t] = "entry_node"
            \/ /\ after = "initial"
               /\ node[t] = "confirmation_node"
               /\ thread_state'[t].messages.last = cancel_message

\* C22: the stage only advances initial -> pending_confirmation -> confirmed
\* -> completed, one stage at a time; the only other changes are the resets to
\* initial on a cancellation and on a new message at a completed stage.
C22_StageAdvancesInOrder == [][\A t \in Threads : StageStep(t)]_vars

\* a thread that completed an event, was reset by a new message and waits for
\* the confirmation of the next event
C22_Witness ==
    \E t \in Threads :
        /\ StageOf(t) = "pending_confirmation"
        /\ node[t] = "interrupted"
        /\ thread_state[t].coordinates # None
        /\ thread_state[t].flood_report = None

\* the replies that are empty, are a string that is not valid JSON, or have
\* cancelled set
CancellingReplies ==
    {Reply("str", "", EmptyDict), Reply("str", "ok", EmptyDict),
     Reply("str", "{}", EmptyDict), Reply("dict", "", EmptyDict),
     Reply("str", "{\"cancelled\": true}", EmptyDict),
     Reply("dict", "", [k \in {"cancelled"} |-> TRUE])}

\* confirmation_node of thread t runs on a cancelling reply: the run ends with
\* the stage reset and the cancellation message, and the results stay
CancelStep(t) ==
    (/\ node[t] = "confirmation_node"
     /\ resume[t] \in CancellingReplies
     /\ node'[t] # node[t]) =>
        /\ node'[t] = "__end__"
        /\ get_stage(thread_state'[t]) = "initial"
        /\ ~thread_state'[t].user_confirmed
        /\ thread_state'[t].messages.last = cancel_message
        /\ thread_state'[t].messages.len = thread_state[t].messages.len + 1
        /\ \A f \in {"flood_report", "coordinates", "bounds", "geojson", "search_sources"} :
               thread_state'[t][f] = thread_state[t][f]
        /\ "processing_node" \notin {path'[t][i] : i \in 1..Len(path'[t])}

\* C23: on a reply that is empty, is a string that is not valid JSON, or has
\* cancelled set, the run ends at once with stage = initial, user_confirmed
\* false and the cancellation message appended; processing_node does not
\* execute and flood_report, coordinates, bounds, geojson and search_sources
\* keep their values.
C23_CancelEndsRun == [][\A t \in Threads : CancelStep(t)]_vars

\* a thread that holds the results of a completed event and has just
\* cancelled the confirmation of the next one
C23_Witness ==
    \E t \in Threads :
        /\ node[t] = "__end__"
        /\ thread_state[t].messages.last = cancel_message
        /\ StageOf(t) = "initial"
        /\ thread_state[t].coordinates # None
        /\ thread_state[t].search_sources # None
        /\ path[t] = <<"confirmation_node">>

\* entry_node of thread t runs at a completed stage: nothing of the previous
\* event is left
ResetStep(t) ==
    (/\ node[t] = "entry_node"
     /\ get_stage(thread_state[t]) = "completed"
     /\ node'[t] = "chat_node") =>
        /\ get_stage(thread_state'[t]) = "initial"
        /\ ~thread_state'[t].user_confirmed
        /\ thread_state'[t].flood_report = None
        /\ \A f \in EventFields : thread_state'[t][f] = PyNone

\* C24: on a new message at a completed stage entry_node resets the
\* conversation before chat_node runs: stage = initial, user_confirmed =
\* false, and none of event, event_description, flood_report, pre_date,
\* peek_date, after_date, location keeps its previous value.
C24_EntryResetsPreviousEvent == [][\A t \in Threads : ResetStep(t)]_vars

\* C28: the search sources processing_node stores for a conversation were
\* produced by a search of that same conversation for the confirmed event,
\* under any interleaving of the conversations.
C28_SourcesOfOwnConversation ==
    \A t \in Threads :
        (node[t] = "__end__" /\ StageOf(t) = "completed") =>
            \A i \in 1..Len(thread_state[t].search_sources.items) :
                /\ thread_state[t].search_sources.items[i].by = t
                /\ thread_state[t].event \in Events =>
                       thread_state[t].search_sources.items[i].title = thread_state[t].event

\* C29: at the end of every node user_confirmed is true exactly when the
\* stage is confirmed or completed, and a thread waits at the confirmation
\* interrupt only with user_confirmed false.
C29_ConfirmedIffStage ==
    \A t \in Threads :
        /\ thread_state[t].user_confirmed <=> StageOf(t) \in {"confirmed", "completed"}
        /\ node[t] = "interrupted" => ~thread_state[t].user_confirmed

\* a thread that completed an event with user_confirmed true was reset by the
\* next message and waits at the interrupt again
C29_Witness ==
    \E t \in Threads :
        /\ node[t] = "interrupted"
        /\ StageOf(t) = "pending_confirmation"
        /\ thread_state[t].search_sources # None
        /\ thread_state[t].is_valid_flood_query = TRUE
        /\ ~thread_state[t].user_confirmed

=============================================================================
